---------------------------- MODULE Spec2Model ----------------------------
(***************************************************************************)
(* A model of the MCP client of query_blogger_mcp_server                   *)
(* (demo/mcp_agent_tools.py): the envelope parser and result unwrapper of  *)
(* MCPAgentTools.call_mcp_tool, and the tool registry cache of             *)
(* MCPAgentTools.get_tools.                                                *)
(*                                                                         *)
(* Texts (Python str) are sequences over an alphabet in which every JSON   *)
(* significant character (braces, brackets, colon, comma, quote,           *)
(* backslash, space, newline) is one element and every run of other        *)
(* characters (a word such as result, a digit) is one element.  JSON       *)
(* values are tagged records [k, v]:                                       *)
(*   null  [k |-> "null", v |-> <<>>]                                      *)
(*   int   [k |-> "num",  v |-> digit]                                     *)
(*   str   [k |-> "str",  v |-> text]                                      *)
(*   list  [k |-> "list", v |-> sequence of values]                        *)
(*   dict  [k |-> "dict", v |-> sequence of <<key text, value>>], in       *)
(*         insertion order, keys unique.                                   *)
(***************************************************************************)
EXTENDS Naturals, Sequences, FiniteSets, TLC

----------------------------------------------------------------------------
(* The character alphabet.                                                 *)

QUOTE  == "\""
BSLASH == "\\"
SP     == " "
NL     == "\n"
Digits == {"0", "1", "2", "5"}
Whitespace == {SP, NL}

----------------------------------------------------------------------------
(* Python / JSON values.                                                   *)

Null      == [k |-> "null", v |-> <<>>]
Num(d)    == [k |-> "num",  v |-> d]
Str(s)    == [k |-> "str",  v |-> s]
List(xs)  == [k |-> "list", v |-> xs]
Dict(ps)  == [k |-> "dict", v |-> ps]
W(w)      == Str(<<w>>)

IsDict(x) == x.k = "dict"
IsList(x) == x.k = "list"
IsStr(x)  == x.k = "str"

\* key in d, for a dict d
HasKey(d, key) == \E i \in 1..Len(d.v) : d.v[i][1] = key
\* d[key], for a dict d that has the key
GetKey(d, key) == d.v[CHOOSE i \in 1..Len(d.v) : d.v[i][1] = key][2]
\* d.get(key, default)
GetOr(d, key, default) == IF HasKey(d, key) THEN GetKey(d, key) ELSE default
\* d[key] = val on a sequence of pairs: a repeated key keeps its place
PutKey(ps, key, val) ==
    IF \E i \in 1..Len(ps) : ps[i][1] = key
    THEN [i \in 1..Len(ps) |-> IF ps[i][1] = key THEN <<key, val>> ELSE ps[i]]
    ELSE Append(ps, <<key, val>>)

\* frag occurs in text (Python: frag in text)
IsInfix(frag, text) ==
    \E i \in 0..(Len(text) - Len(frag)) :
        \A j \in 1..Len(frag) : text[i + j] = frag[j]
\* text.startswith(prefix)
StartsWith(text, prefix) ==
    /\ Len(prefix) <= Len(text)
    /\ \A j \in 1..Len(prefix) : text[j] = prefix[j]

RECURSIVE LStrip(_)
LStrip(s) == IF s # <<>> /\ Head(s) \in Whitespace THEN LStrip(Tail(s)) ELSE s
RECURSIVE RStrip(_)
RStrip(s) ==
    IF s # <<>> /\ s[Len(s)] \in Whitespace
    THEN RStrip(SubSeq(s, 1, Len(s) - 1)) ELSE s
\* text.strip()
Strip(s) == RStrip(LStrip(s))

----------------------------------------------------------------------------
(* json.dumps with Python's default separators ", " and ": ".              *)

EscapeChar(c) ==
    IF c = QUOTE THEN <<BSLASH, QUOTE>>
    ELSE IF c = BSLASH THEN <<BSLASH, BSLASH>>
    ELSE IF c = NL THEN <<BSLASH, "n">>
    ELSE <<c>>
\* the characters of a string literal for the characters of a str (by halves:
\* the depth of the evaluation stays logarithmic in the length)
RECURSIVE Escape(_)
Escape(s) ==
    IF s = <<>> THEN <<>>
    ELSE IF Len(s) = 1 THEN EscapeChar(s[1])
    ELSE Escape(SubSeq(s, 1, Len(s) \div 2))
         \o Escape(SubSeq(s, Len(s) \div 2 + 1, Len(s)))

RECURSIVE Dumps(_)
RECURSIVE DumpElems(_)
RECURSIVE DumpMembers(_)
DumpElems(xs) ==
    IF xs = <<>> THEN <<>>
    ELSE Dumps(Head(xs))
         \o (IF Len(xs) > 1 THEN <<",", SP>> ELSE <<>>) \o DumpElems(Tail(xs))
DumpMembers(ps) ==
    IF ps = <<>> THEN <<>>
    ELSE <<QUOTE>> \o Escape(Head(ps)[1]) \o <<QUOTE, ":", SP>> \o Dumps(Head(ps)[2])
         \o (IF Len(ps) > 1 THEN <<",", SP>> ELSE <<>>) \o DumpMembers(Tail(ps))
Dumps(x) ==
    CASE x.k = "null" -> <<"null">>
      [] x.k = "num"  -> <<x.v>>
      [] x.k = "str"  -> <<QUOTE>> \o Escape(x.v) \o <<QUOTE>>
      [] x.k = "list" -> <<"[">> \o DumpElems(x.v) \o <<"]">>
      [] x.k = "dict" -> <<"{">> \o DumpMembers(x.v) \o <<"}">>

----------------------------------------------------------------------------
(* json.loads: a result is [ok |-> TRUE, val, pos] or [ok |-> FALSE, err]  *)
(* where err is the text of the JSONDecodeError.                           *)

JsonErr(e) == [ok |-> FALSE, err |-> <<e>>]
JsonOk(x, p) == [ok |-> TRUE, val |-> x, pos |-> p]

RECURSIVE SkipWs(_, _)
SkipWs(s, i) == IF i <= Len(s) /\ s[i] \in Whitespace THEN SkipWs(s, i + 1) ELSE i

\* The scanner of a string literal, from position i, the character after its
\* opening quote.  A backslash opens an escape when an even number of
\* backslashes runs up to it; the character after it is escaped.
Min(S) == CHOOSE p \in S : \A q \in S : p <= q
BackslashRun(s, i, p) ==
    CHOOSE n \in 0..(p - i) :
        /\ \A m \in 1..n : s[p - m] = BSLASH
        /\ (n < p - i => s[p - n - 1] # BSLASH)
OpensEscape(s, i, p) == s[p] = BSLASH /\ BackslashRun(s, i, p) % 2 = 0
IsEscaped(s, i, p) == p > i /\ OpensEscape(s, i, p - 1)
Unescape(c) == IF c = "n" THEN NL ELSE c
\* the closing quote, or the end of the text
Closes(s, i, p) == s[p] = QUOTE /\ ~IsEscaped(s, i, p)
StringEnd(s, i) ==
    CHOOSE p \in i..(Len(s) + 1) :
        /\ p = Len(s) + 1 \/ Closes(s, i, p)
        /\ \A q \in i..(p - 1) : ~Closes(s, i, q)
IsControl(s, i, p) == s[p] = NL /\ ~IsEscaped(s, i, p)
IsBadEscape(s, i, p) ==
    OpensEscape(s, i, p) /\ p + 1 <= Len(s) /\ s[p + 1] \notin {QUOTE, BSLASH, "n"}
\* the characters json.loads rejects, before the closing quote
StringBad(s, i, end) ==
    {p \in i..(end - 1) : IsControl(s, i, p) \/ IsBadEscape(s, i, p)}
StringChars(s, i, end) ==
    LET chars == [p \in 1..(end - i) |->
                     [keep |-> ~OpensEscape(s, i, i + p - 1),
                      c |-> IF IsEscaped(s, i, i + p - 1)
                            THEN Unescape(s[i + p - 1]) ELSE s[i + p - 1]]]
        kept == SelectSeq(chars, LAMBDA ch : ch.keep)
    IN [p \in 1..Len(kept) |-> kept[p].c]
ScanString(s, i, end, bad) ==
    IF bad # {} THEN
        IF IsControl(s, i, Min(bad)) THEN JsonErr("Invalid control character at")
        ELSE JsonErr("Invalid \\escape")
    ELSE IF end > Len(s) THEN JsonErr("Unterminated string starting at")
    ELSE JsonOk(StringChars(s, i, end), end + 1)
ParseString(s, i) == ScanString(s, i, StringEnd(s, i), StringBad(s, i, StringEnd(s, i)))

RECURSIVE ParseValue(_, _)
RECURSIVE ParseElems(_, _, _)
RECURSIVE ParseMembers(_, _, _)
StrResult(r) == IF r.ok THEN JsonOk(Str(r.val), r.pos) ELSE r
\* the elements of an array, from position i, up to its closing bracket
ElemsNext(s, acc, j) ==
    IF j <= Len(s) /\ s[j] = "," THEN ParseElems(s, j + 1, acc)
    ELSE IF j <= Len(s) /\ s[j] = "]" THEN JsonOk(List(acc), j + 1)
    ELSE JsonErr("Expecting ',' delimiter")
ElemsAfter(s, acc, r) ==
    IF ~r.ok THEN r ELSE ElemsNext(s, Append(acc, r.val), SkipWs(s, r.pos))
ParseElems(s, i, acc) == ElemsAfter(s, acc, ParseValue(s, SkipWs(s, i)))
\* the members of an object, from position i, up to its closing brace
MembersNext(s, ps, m) ==
    IF m <= Len(s) /\ s[m] = "," THEN ParseMembers(s, m + 1, ps)
    ELSE IF m <= Len(s) /\ s[m] = "}" THEN JsonOk(Dict(ps), m + 1)
    ELSE JsonErr("Expecting ',' delimiter")
MemberAfter(s, acc, key, r) ==
    IF ~r.ok THEN r ELSE MembersNext(s, PutKey(acc, key, r.val), SkipWs(s, r.pos))
MemberValue(s, acc, key, c) ==
    IF ~(c <= Len(s) /\ s[c] = ":") THEN JsonErr("Expecting ':' delimiter")
    ELSE MemberAfter(s, acc, key, ParseValue(s, SkipWs(s, c + 1)))
MemberColon(s, acc, key) ==
    IF ~key.ok THEN key ELSE MemberValue(s, acc, key.val, SkipWs(s, key.pos))
MemberKey(s, acc, j) ==
    IF ~(j <= Len(s) /\ s[j] = QUOTE)
    THEN JsonErr("Expecting property name enclosed in double quotes")
    ELSE MemberColon(s, acc, ParseString(s, j + 1))
ParseMembers(s, i, acc) == MemberKey(s, acc, SkipWs(s, i))
ArrayFrom(s, i, j) ==
    IF j <= Len(s) /\ s[j] = "]" THEN JsonOk(List(<<>>), j + 1)
    ELSE ParseElems(s, i, <<>>)
ObjectFrom(s, i, j) ==
    IF j <= Len(s) /\ s[j] = "}" THEN JsonOk(Dict(<<>>), j + 1)
    ELSE ParseMembers(s, i, <<>>)
ParseValue(s, i) ==
    IF i > Len(s) THEN JsonErr("Expecting value")
    ELSE IF s[i] = "null" THEN JsonOk(Null, i + 1)
    ELSE IF s[i] \in Digits THEN JsonOk(Num(s[i]), i + 1)
    ELSE IF s[i] = QUOTE THEN StrResult(ParseString(s, i + 1))
    ELSE IF s[i] = "[" THEN ArrayFrom(s, i + 1, SkipWs(s, i + 1))
    ELSE IF s[i] = "{" THEN ObjectFrom(s, i + 1, SkipWs(s, i + 1))
    ELSE JsonErr("Expecting value")

\* json.loads(s): the whole text is one JSON document
LoadsEnd(s, r) ==
    IF ~r.ok THEN r
    ELSE IF SkipWs(s, r.pos) = Len(s) + 1 THEN r
    ELSE JsonErr("Extra data")
Loads(s) == LoadsEnd(s, ParseValue(s, SkipWs(s, 1)))

----------------------------------------------------------------------------
(* Python operations on values.                                            *)

\* str(x) as an f-string embeds it; repr for the members of a container
RECURSIVE PyRepr(_)
RECURSIVE ReprElems(_)
RECURSIVE ReprMembers(_)
ReprElems(xs) ==
    IF xs = <<>> THEN <<>>
    ELSE PyRepr(Head(xs))
         \o (IF Len(xs) > 1 THEN <<",", SP>> ELSE <<>>) \o ReprElems(Tail(xs))
ReprMembers(ps) ==
    IF ps = <<>> THEN <<>>
    ELSE <<"'">> \o Head(ps)[1] \o <<"'", ":", SP>> \o PyRepr(Head(ps)[2])
         \o (IF Len(ps) > 1 THEN <<",", SP>> ELSE <<>>) \o ReprMembers(Tail(ps))
PyRepr(x) ==
    CASE x.k = "null" -> <<"None">>
      [] x.k = "num"  -> <<x.v>>
      [] x.k = "str"  -> <<"'">> \o x.v \o <<"'">>
      [] x.k = "list" -> <<"[">> \o ReprElems(x.v) \o <<"]">>
      [] x.k = "dict" -> <<"{">> \o ReprMembers(x.v) \o <<"}">>
PyStr(x) == IF IsStr(x) THEN x.v ELSE PyRepr(x)

\* word in x, for the values on which Python defines it (dict, list, str)
PyIn(word, x) ==
    CASE x.k = "dict" -> HasKey(x, <<word>>)
      [] x.k = "list" -> \E i \in 1..Len(x.v) : x.v[i] = W(word)
      [] x.k = "str"  -> IsInfix(<<word>>, x.v)
      [] OTHER        -> FALSE

----------------------------------------------------------------------------
(* The transport: what self.client.post and raise_for_status produce.      *)
(*   [kind |-> "response", status, text]   an HTTP response                *)
(*   [kind |-> "request_error", status, text = str(e)]  httpx.RequestError *)
(*   [kind |-> "closed", ...]   RuntimeError of a closed AsyncClient       *)

HttpResponse(status, text) == [kind |-> "response", status |-> status, text |-> text]
RequestError(e) == [kind |-> "request_error", status |-> "", text |-> <<e>>]
ClientClosed ==
    [kind |-> "closed", status |-> "",
     text |-> <<"Cannot send a request, as the client has been closed.">>]
NoCall == [kind |-> "none", status |-> "", text |-> <<>>]
\* a variant in which raise_for_status lets every response pass
IsSuccess_AnyStatus(resp) == resp.kind = "response"
\* response.raise_for_status() passes
IsSuccess(resp) == resp.kind = "response" /\ resp.status = "200"

----------------------------------------------------------------------------
(* MCPAgentTools.call_mcp_tool.  The outcome of a piece of the handler is  *)
(* [exc, val, exit]: exc = "none" and val the value it returns at the      *)
(* return statement exit, or exc the exception it raises and val its       *)
(* str().  parsed is the local parsed_sse_data, when it was assigned.      *)

Returned(x, exit) == [exc |-> "none", val |-> x, exit |-> exit]
Raised(e, m) == [exc |-> e, val |-> Str(<<m>>), exit |-> "raise"]
ErrorDict(msg) == Dict(<< << <<"error">>, Str(msg) >> >>)

EventMessage == <<"event", ":", SP, "message">>
DataMarker == <<"data", ":">>
UnexpectedFormatMsg ==
    "Unexpected JSON-RPC response format from MCP server (missing 'result' or 'error' key)."

\* text.split("data:", 1): the text after the first "data:", or no such part
HasDataMarker(text) == IsInfix(DataMarker, text)
AfterDataMarker(text) ==
    LET i == CHOOSE n \in 0..(Len(text) - 2) :
                 /\ text[n + 1] = "data" /\ text[n + 2] = ":"
                 /\ \A m \in 0..(n - 1) : ~(text[m + 1] = "data" /\ text[m + 2] = ":")
    IN SubSeq(text, i + 3, Len(text))

\* lines 153-167: the envelope: [exc, val, exit] with exit "parsed" when
\* parsed_sse_data was assigned, or the return of the parse failure
SseJson(data_line, r) ==
    IF r.ok THEN Returned(r.val, "parsed")
    ELSE Returned(ErrorDict(<<"JSON decoding error of SSE data payload: ">>
                            \o r.err \o <<". Raw data: '">> \o data_line \o <<"'">>),
                  "sse_parse")
SseData(data_line) == SseJson(data_line, Loads(data_line))
DirectJson(text, r) ==
    IF r.ok THEN Returned(r.val, "parsed")
    ELSE Returned(ErrorDict(<<"JSON decoding error of direct response: ">>
                            \o r.err \o <<". Raw response: '">> \o text \o <<"'">>),
                  "direct_parse")
ParseEnvelope(text) ==
    IF StartsWith(text, EventMessage) THEN
        IF ~HasDataMarker(text) THEN Raised("IndexError", "list index out of range")
        ELSE SseData(Strip(AfterDataMarker(text)))
    ELSE DirectJson(text, Loads(text))

\* a variant of the shape test that does not look at content[0].type
IsNestedText_AnyType(result) ==
    /\ IsDict(result)
    /\ HasKey(result, <<"content">>)
    /\ IsList(GetKey(result, <<"content">>))
    /\ Len(GetKey(result, <<"content">>).v) > 0
    /\ IsDict(GetKey(result, <<"content">>).v[1])
    /\ HasKey(GetKey(result, <<"content">>).v[1], <<"text">>)

\* lines 174-182: result carries a JSON text in content[0].text
IsNestedText(result) ==
    /\ IsDict(result)
    /\ HasKey(result, <<"content">>)
    /\ IsList(GetKey(result, <<"content">>))
    /\ Len(GetKey(result, <<"content">>).v) > 0
    /\ IsDict(GetKey(result, <<"content">>).v[1])
    /\ HasKey(GetKey(result, <<"content">>).v[1], <<"type">>)
    /\ GetKey(GetKey(result, <<"content">>).v[1], <<"type">>) = W("text")
    /\ HasKey(GetKey(result, <<"content">>).v[1], <<"text">>)

\* a variant that hands the result on without decoding the nested text
UnwrapResult_NoDecode(result) == Returned(result, "success")

\* a variant that returns the text it could not decode
NestedJson_KeepText(nested_json_str, r) ==
    IF r.ok THEN Returned(r.val, "success")
    ELSE Returned(Str(nested_json_str), "success")

\* lines 183-191: final_result from parsed_sse_data["result"]
NestedJson(nested_json_str, r) ==
    IF r.ok THEN Returned(r.val, "success")
    ELSE Returned(ErrorDict(<<"JSON decoding error of nested content: ">>
                            \o r.err \o <<". Raw nested text: '">>
                            \o nested_json_str \o <<"'">>), "nested_parse")
DecodeNested(nested_json_str) ==
    IF ~IsStr(nested_json_str)
    THEN Raised("TypeError", "the JSON object must be str, bytes or bytearray")
    ELSE NestedJson(nested_json_str.v, Loads(nested_json_str.v))
UnwrapResult(result) ==
    IF IsNestedText(result)
    THEN DecodeNested(GetKey(GetKey(result, <<"content">>).v[1], <<"text">>))
    ELSE Returned(result, "success")

\* a variant that reports every envelope without result as a JSON-RPC error
Unwrap_NoFormatCheck(parsed_sse_data) ==
    IF IsDict(parsed_sse_data) /\ HasKey(parsed_sse_data, <<"result">>)
    THEN Returned(GetKey(parsed_sse_data, <<"result">>), "success")
    ELSE Returned(ErrorDict(<<"MCP server JSON-RPC error: ", "Unknown error">>),
                  "rpc_error")

\* lines 171-199: the result, the JSON-RPC error or the protocol violation
Unwrap(parsed_sse_data) ==
    IF parsed_sse_data.k \in {"null", "num"}
    THEN Raised("TypeError", "argument of type is not iterable")
    ELSE IF PyIn("result", parsed_sse_data) THEN
        IF ~IsDict(parsed_sse_data)
        THEN Raised("TypeError", "indices must be integers")
        ELSE UnwrapResult(GetKey(parsed_sse_data, <<"result">>))
    ELSE IF PyIn("error", parsed_sse_data) THEN
        IF ~IsDict(parsed_sse_data)
        THEN Raised("TypeError", "indices must be integers")
        ELSE LET error == GetKey(parsed_sse_data, <<"error">>) IN
             IF ~IsDict(error)
             THEN Raised("AttributeError", "object has no attribute 'get'")
             ELSE Returned(ErrorDict(<<"MCP server JSON-RPC error: ">>
                                     \o PyStr(GetOr(error, <<"message">>,
                                                    W("Unknown error")))),
                           "rpc_error")
    ELSE Returned(ErrorDict(<<UnexpectedFormatMsg>>), "unexpected_format")

\* lines 145-199: the body of the try statement
AfterParse(env) == IF env.exit = "parsed" THEN Unwrap(env.val) ELSE env
TryBody(resp) ==
    IF resp.kind = "request_error" THEN [exc |-> "RequestError", val |-> Str(resp.text),
                                         exit |-> "raise"]
    ELSE IF resp.kind = "closed" THEN [exc |-> "RuntimeError", val |-> Str(resp.text),
                                       exit |-> "raise"]
    ELSE IF ~IsSuccess(resp) THEN Raised("HTTPStatusError", "status error")
    ELSE AfterParse(ParseEnvelope(resp.text))

\* lines 201-209: the except clauses
ExceptClauses(resp, r) ==
    CASE r.exc = "none" -> r
      [] r.exc = "HTTPStatusError" ->
            Returned(ErrorDict(<<"Tool call failed: HTTP ", resp.status, " - ">>
                               \o resp.text), "http_status")
      [] r.exc = "RequestError" ->
            Returned(ErrorDict(<<"Tool call failed: Network error - ">> \o r.val.v),
                     "network")
      [] OTHER ->
            Returned(ErrorDict(<<"Tool call failed: Unexpected error - ">> \o r.val.v),
                     "unexpected_error")

call_mcp_tool(resp) == ExceptClauses(resp, TryBody(resp))

----------------------------------------------------------------------------
(* The inputs: JSON values, JSON-RPC envelopes and their wire forms.       *)

MaxLen == 2

Member(key, val) == << <<key>>, val >>
StrSamples ==
    { <<>>, <<"a">>, <<QUOTE>>, <<BSLASH>>, <<NL>>, <<"a", QUOTE, BSLASH, "n">>,
      <<"data", ":", SP, "{", "}">>, EventMessage, <<"result">>, <<"null">> }
ElemAtoms == {Null, Num("1"), Str(<<"a", QUOTE>>)}
Atoms == {Null, Num("1"), Num("0")} \cup {Str(s) : s \in StrSamples}
Lists == {List(xs) : xs \in UNION {[1..n -> ElemAtoms] : n \in 0..MaxLen}}
Dicts ==
    {Dict(<<>>)}
    \cup {Dict(<<Member(key, a)>>) : key \in {"a", "error"}, a \in ElemAtoms}
    \cup {Dict(<<Member("a", a), Member("error", b)>>) : a, b \in ElemAtoms}

\* a tool result in the MCP content convention: the JSON text in a text block
TextBlock(text) == Dict(<<Member("type", W("text")), Member("text", text)>>)
TextResult(x) == Dict(<<Member("content", List(<<TextBlock(Str(Dumps(x)))>>))>>)

BlogInfo ==
    Dict(<<Member("blog_title", W("Tech")),
           Member("recent_posts", List(<<Dict(<<Member("title", W("Hello"))>>)>>))>>)
Nested ==
    { BlogInfo, List(<<Dict(<<Member("a", List(<<Num("1")>>))>>)>>),
      TextResult(BlogInfo), TextResult(Num("1")), TextBlock(W("a")) }
Values == Atoms \cup Lists \cup Dicts \cup Nested

\* results that do not carry a JSON text in content[0].text
PlainResults ==
    { Dict(<<>>), Null, Num("1"), W("a"), List(<<>>), List(<<TextBlock(W("1"))>>),
      BlogInfo,
      Dict(<<Member("content", List(<<>>))>>),
      Dict(<<Member("content", W("text"))>>),
      Dict(<<Member("content", Dict(<<Member("type", W("text")),
                                      Member("text", W("1"))>>))>>),
      Dict(<<Member("content", List(<<W("text")>>))>>),
      Dict(<<Member("content", List(<<Dict(<<Member("type", W("image")),
                                               Member("text", W("1"))>>)>>))>>),
      Dict(<<Member("content", List(<<Dict(<<Member("type", W("text"))>>)>>))>>),
      Dict(<<Member("content", List(<<Dict(<<Member("text", W("1"))>>)>>))>>),
      Dict(<<Member("content", List(<<Dict(<<Member("type", W("image"))>>),
                                       TextBlock(W("1"))>>))>>) }
\* text blocks whose text is no JSON text, or no text at all
BadTextResults ==
    { Dict(<<Member("content", List(<<TextBlock(t)>>))>>) :
        t \in { Str(<<"not", SP, "json">>), Str(<<"{">>), Str(<<>>),
                Str(<<"1", SP, "2">>), Num("5"), Null } }
ErrorMembers ==
    { Dict(<<Member("message", W("boom"))>>),
      Dict(<<Member("code", Num("5")), Member("message", W("boom"))>>),
      Dict(<<Member("code", Num("5"))>>), Dict(<<>>),
      Dict(<<Member("message", Str(<<"bad", SP, QUOTE, "url", QUOTE>>))>>),
      W("boom"), Null, List(<<W("message")>>) }

Envelope(members) ==
    Dict(<<Member("jsonrpc", W("2.0")), Member("id", W("1"))>> \o members)
ResultEnvelopes ==
    {Envelope(<<Member("result", TextResult(x))>>) : x \in Values}
    \cup {Envelope(<<Member("result", r)>>) : r \in PlainResults \cup BadTextResults}
ErrorEnvelopes == {Envelope(<<Member("error", e)>>) : e \in ErrorMembers}
BothEnvelopes ==
    { Envelope(<<Member("result", Dict(<<>>)), Member("error", e)>>) :
        e \in ErrorMembers }
    \cup { Envelope(<<Member("error", Dict(<<Member("message", W("boom"))>>)),
                      Member("result", TextResult(BlogInfo))>>) }
NeitherEnvelopes ==
    { Envelope(<<>>), Dict(<<>>), Dict(<<Member("results", Dict(<<>>))>>) }
\* JSON documents that are no mapping
OtherDocuments ==
    { Null, Num("1"), List(<<>>), List(<<W("result")>>), List(<<W("error")>>),
      List(<<Envelope(<<Member("result", Dict(<<>>))>>)>>),
      W("a"), Str(<<"no", SP, "result">>), Str(<<"an", SP, "error">>) }
Documents ==
    ResultEnvelopes \cup ErrorEnvelopes \cup BothEnvelopes \cup NeitherEnvelopes
    \cup OtherDocuments

\* the two wire forms of a document
PlainBody(doc) == Dumps(doc)
SseBody(doc) == EventMessage \o <<NL>> \o DataMarker \o <<SP>> \o Dumps(doc) \o <<NL, NL>>

Prefixes(text) == {SubSeq(text, 1, n) : n \in 0..Len(text)}
SampleEnvelope == Envelope(<<Member("result", TextResult(Dict(<<Member("a", Num("1"))>>)))>>)
\* bodies broken in transit, and SSE bodies of more than the one data line
BrokenBodies ==
    Prefixes(PlainBody(SampleEnvelope)) \cup Prefixes(SseBody(SampleEnvelope))
    \cup { EventMessage \o <<NL, NL>>,
           EventMessage \o <<NL>> \o DataMarker,
           EventMessage \o <<NL, "id", ":", SP, "1", NL, NL>>,
           SseBody(SampleEnvelope) \o SseBody(SampleEnvelope),
           EventMessage \o <<NL>> \o DataMarker \o <<SP>> \o Dumps(SampleEnvelope)
               \o <<NL, "id", ":", SP, "1", NL, NL>>,
           EventMessage \o <<NL>> \o DataMarker \o <<SP>> \o Dumps(SampleEnvelope)
               \o <<NL>> \o DataMarker \o <<SP>> \o Dumps(Envelope(<<>>)) \o <<NL, NL>>,
           EventMessage \o <<NL, "id", ":", SP>> \o DataMarker \o <<"1", NL>>
               \o DataMarker \o <<SP>> \o Dumps(SampleEnvelope) \o <<NL, NL>>,
           <<SP>> \o SseBody(SampleEnvelope),
           <<NL>> \o PlainBody(SampleEnvelope) \o <<NL>> }
Bodies == {PlainBody(d) : d \in Documents} \cup {SseBody(d) : d \in Documents}
          \cup BrokenBodies

\* what the transport can answer a tools/call request with
CallOutcomes ==
    {HttpResponse("200", b) : b \in Bodies}
    \cup {HttpResponse(st, b) : st \in {"307", "404", "500"},
                                b \in {<<"Not Found">>, <<>>, PlainBody(SampleEnvelope)}}
    \cup {RequestError(e) : e \in {"All connection attempts failed", "ReadTimeout"}}
    \cup {ClientClosed}

----------------------------------------------------------------------------
(* MCPAgentTools._fetch_tools and the discovery responses.                 *)

ToolDefinition(name, description, parameters, method) ==
    [name |-> name, description |-> description, parameters |-> parameters,
     method |-> method]

\* lines 53-75: _parse_response is the envelope parser of call_mcp_tool; a parse
\* failure is returned as the mapping {"error": ...}
parse_response(text) == ParseEnvelope(text)

\* iterating methods: the elements of a list, the keys of a dict, the
\* characters of a str
Iterable(x) == x.k \in {"list", "dict", "str"}
Elements(x) ==
    CASE x.k = "list" -> x.v
      [] x.k = "dict" -> [i \in 1..Len(x.v) |-> Str(x.v[i][1])]
      [] x.k = "str"  -> [i \in 1..Len(x.v) |-> Str(<<x.v[i]>>)]
\* lines 97-102: the entry builds a ToolDefinition (pydantic validates the
\* field types)
BuildsTool(method) ==
    /\ IsDict(method)
    /\ HasKey(method, <<"name">>)
    /\ IsStr(GetKey(method, <<"name">>))
    /\ IsStr(GetOr(method, <<"description">>, Str(<<>>)))
    /\ IsDict(GetOr(method, <<"parameters">>, Dict(<<>>)))
\* a variant that fills a missing description with the name
ToolOf_DescriptionFromName(method) ==
    ToolDefinition(GetKey(method, <<"name">>).v,
                   GetOr(method, <<"description">>, GetKey(method, <<"name">>)).v,
                   GetOr(method, <<"parameters">>, Dict(<<>>)),
                   GetKey(method, <<"name">>).v)
ToolOf(method) ==
    ToolDefinition(GetKey(method, <<"name">>).v,
                   GetOr(method, <<"description">>, Str(<<>>)).v,
                   GetOr(method, <<"parameters">>, Dict(<<>>)),
                   GetKey(method, <<"name">>).v)

\* what a run of _fetch_tools did: exc, the tools returned, the requests sent
Fetched(tools, posts) == [exc |-> "none", val |-> tools, posts |-> posts]
FetchRaised(e, posts) == [exc |-> e, val |-> <<>>, posts |-> posts]

\* a variant that keeps the entries built before a malformed one
BuildTools_Partial(ms) ==
    LET good == SelectSeq(ms, BuildsTool)
    IN Fetched([i \in 1..Len(good) |-> ToolOf(good[i])], 1)

\* lines 92-104: the tools of the list, or the exception of a bad entry
BuildTools(ms) ==
    IF \A i \in 1..Len(ms) : BuildsTool(ms[i])
    THEN Fetched([i \in 1..Len(ms) |-> ToolOf(ms[i])], 1)
    ELSE FetchRaised("Exception", 1)
ToolsOf(methods) ==
    IF ~Iterable(methods) THEN FetchRaised("TypeError", 1)
    ELSE BuildTools(Elements(methods))
ResultOf(result) ==
    IF ~IsDict(result) THEN FetchRaised("AttributeError", 1)
    ELSE ToolsOf(GetOr(result, <<"tools">>, List(<<>>)))
ParsedOf(parsed) ==
    IF parsed.exc # "none" THEN FetchRaised(parsed.exc, 1)
    ELSE IF ~IsDict(parsed.val) THEN FetchRaised("AttributeError", 1)
    ELSE ResultOf(GetOr(parsed.val, <<"result">>, List(<<>>)))
\* lines 81-104: the body of the try statement, one tools/list request
TryFetch(resp) ==
    IF resp.kind = "request_error" THEN FetchRaised("RequestError", 1)
    ELSE IF resp.kind = "closed" THEN FetchRaised("RuntimeError", 1)
    ELSE IF ~IsSuccess(resp) THEN FetchRaised("HTTPStatusError", 1)
    ELSE ParsedOf(parse_response(resp.text))

\* a variant without the except clause: the exception leaves _fetch_tools
Caught_Propagate(r) == r

\* lines 77-107: any exception is logged and gives the empty list
Caught(r) == IF r.exc = "none" THEN r ELSE Fetched(<<>>, r.posts)
fetch_tools(resp) == Caught(TryFetch(resp))

BlogInfoTool ==
    Dict(<<Member("name", W("get_blog_info_by_url")),
           Member("description", Str(<<"Blog", SP, "info">>)),
           Member("parameters", Dict(<<Member("blog_url", W("string"))>>))>>)
SearchTool ==
    Dict(<<Member("name", W("search_posts")),
           Member("inputSchema", Dict(<<Member("type", W("object"))>>))>>)
ToolsDocument(entries) ==
    Envelope(<<Member("result", Dict(<<Member("tools", List(entries))>>))>>)
ToolLists ==
    { <<SearchTool>>, <<BlogInfoTool, SearchTool>>, <<SearchTool, BlogInfoTool>> }

\* discovery responses with a list of one or more well-formed tools
GoodDiscoveries ==
    {HttpResponse("200", PlainBody(ToolsDocument(ts))) : ts \in ToolLists}
    \cup {HttpResponse("200", SseBody(ToolsDocument(<<BlogInfoTool, SearchTool>>)))}
\* a well-formed discovery response that lists no tool
EmptyDiscovery == HttpResponse("200", PlainBody(ToolsDocument(<<>>)))
\* a response in which one entry of the list has no name
NamelessEntryDiscovery ==
    HttpResponse("200", PlainBody(ToolsDocument(
        <<BlogInfoTool, Dict(<<Member("description", W("nameless"))>>)>>)))
\* transport errors, error statuses, unparsable bodies, responses without
\* result or result.tools, a tool entry without a name
FailedDiscoveries ==
    { RequestError("All connection attempts failed"),
      HttpResponse("500", <<"Internal Server Error">>),
      HttpResponse("200", SubSeq(PlainBody(ToolsDocument(<<SearchTool>>)), 1, 40)),
      HttpResponse("200", EventMessage \o <<NL, NL>>),
      HttpResponse("200", SseBody(ToolsDocument(<<SearchTool>>))
                          \o SseBody(ToolsDocument(<<SearchTool>>))),
      HttpResponse("200", PlainBody(Envelope(<<>>))),
      HttpResponse("200", SseBody(Envelope(
          <<Member("error", Dict(<<Member("message", W("boom"))>>))>>))),
      HttpResponse("200", PlainBody(Envelope(<<Member("result", Dict(<<>>))>>))),
      HttpResponse("200", PlainBody(Envelope(<<Member("result", Null)>>))),
      HttpResponse("200", PlainBody(List(<<>>))),
      NamelessEntryDiscovery }
DiscoveryOutcomes == GoodDiscoveries \cup {EmptyDiscovery} \cup FailedDiscoveries

----------------------------------------------------------------------------
(* The MCP server (query_blogger_mcp_server/server.py), its settings       *)
(* (config.py) and its Blogger API client (blogger_api_client.py).  In a   *)
(* URL the characters : / ? # @ [ ] are one element each and every run of  *)
(* other characters is one element.                                        *)

\* v.split(',')
RECURSIVE SplitComma(_)
SplitComma(v) ==
    IF \A i \in 1..Len(v) : v[i] # ","
    THEN <<v>>
    ELSE LET i == CHOOSE i \in 1..Len(v) : v[i] = "," /\ \A j \in 1..(i - 1) : v[j] # ","
         IN  <<SubSeq(v, 1, i - 1)>> \o SplitComma(SubSeq(v, i + 1, Len(v)))
\* config.py lines 44-62: the validator of ALLOWED_DOMAINS on the raw value of
\* the environment variable
parse_allowed_domains(v) ==
    IF v = <<>> THEN {}
    ELSE LET parts == SplitComma(v) IN {Strip(parts[i]) : i \in 1..Len(parts)}

\* the elements that are runs of scheme characters beginning with a letter
SchemeWords == {"https", "http", "blog.example.com", "www.example.org", "evil.example.net"}
UrlDelims == {"/", "?", "#"}
\* urllib.parse.urlsplit: the text after the scheme and its colon
AfterScheme(url) ==
    IF Len(url) >= 2 /\ url[2] = ":" /\ url[1] \in SchemeWords
    THEN SubSeq(url, 3, Len(url)) ELSE url
\* the index of the first delimiter after the two slashes
NetlocEnd(rest) ==
    IF \E i \in 3..Len(rest) : rest[i] \in UrlDelims
    THEN CHOOSE i \in 3..Len(rest) :
            rest[i] \in UrlDelims /\ \A j \in 3..(i - 1) : rest[j] \notin UrlDelims
    ELSE Len(rest) + 1
Netloc(rest) ==
    IF Len(rest) >= 2 /\ rest[1] = "/" /\ rest[2] = "/"
    THEN SubSeq(rest, 3, NetlocEnd(rest) - 1) ELSE <<>>
HasChar(text, c) == \E i \in 1..Len(text) : text[i] = c
\* urlparse(blog_url): the netloc, or ValueError("Invalid IPv6 URL")
urlparse(blog_url) ==
    LET netloc == Netloc(AfterScheme(blog_url)) IN
    IF HasChar(netloc, "[") # HasChar(netloc, "]")
    THEN [exc |-> "ValueError", netloc |-> <<>>]
    ELSE [exc |-> "none", netloc |-> netloc]

\* a variant that lets every domain pass when none is configured
is_allowed_domain_OpenWhenEmpty(allowed, blog_url) ==
    \/ allowed = {}
    \/ urlparse(blog_url).exc = "none" /\ urlparse(blog_url).netloc \in allowed
\* server.py lines 33-47
is_allowed_domain(allowed, blog_url) ==
    IF allowed = {} THEN FALSE
    ELSE IF urlparse(blog_url).exc # "none" THEN FALSE
    ELSE urlparse(blog_url).netloc \in allowed

\* the outcome of a client method: the value it returns or the exception it
\* raises
ClientReturned(x) == [exc |-> "none", val |-> x]
ClientRaised(e) == [exc |-> e, val |-> Null]
\* response.json() on the parse of the body
JsonOf(r) == IF r.ok THEN ClientReturned(r.val) ELSE ClientRaised("JSONDecodeError")

\* blogger_api_client.py lines 29-37 and 57-64: the except clauses of
\* get_blog_by_url and get_recent_posts
FailureValue(resp) ==
    IF resp.kind = "request_error"
    THEN ClientReturned(ErrorDict(<<"Network error connecting to Blogger API: ">>
                                  \o resp.text))
    ELSE IF resp.status = "404" THEN ClientReturned(Null)
    ELSE ClientReturned(ErrorDict(<<"Blogger API error: ", resp.status, " - ">>
                                  \o resp.text))
\* lines 19-37
get_blog_by_url(resp) ==
    IF IsSuccess(resp) THEN JsonOf(Loads(resp.text)) ELSE FailureValue(resp)

\* line 55: the exception of item['title'] on an element of the items
TitleError(item) ==
    IF ~IsDict(item) THEN "TypeError"
    ELSE IF ~HasKey(item, <<"title">>) THEN "KeyError"
    ELSE "none"
\* line 55: the debug message reads the title of every item
TitlesError(result) ==
    IF ~IsDict(result) THEN "AttributeError"
    ELSE IF ~Iterable(GetOr(result, <<"items">>, List(<<>>))) THEN "TypeError"
    ELSE LET items == Elements(GetOr(result, <<"items">>, List(<<>>))) IN
         IF \A i \in 1..Len(items) : TitleError(items[i]) = "none" THEN "none"
         ELSE TitleError(items[CHOOSE i \in 1..Len(items) :
                                  /\ TitleError(items[i]) # "none"
                                  /\ \A j \in 1..(i - 1) : TitleError(items[j]) = "none"])
\* lines 54-56
RecentPostsOf(j) ==
    IF j.exc # "none" THEN j
    ELSE IF TitlesError(j.val) # "none" THEN ClientRaised(TitlesError(j.val))
    ELSE j
\* lines 40-64; lines 67-73: list_recent_posts returns what it returns
get_recent_posts(resp) ==
    IF IsSuccess(resp) THEN RecentPostsOf(JsonOf(Loads(resp.text))) ELSE FailureValue(resp)

\* html2text on a text of one paragraph: the paragraph tags become blank
\* lines, the bold tags the emphasis mark
MarkdownOf(c) ==
    IF c \in {"<p>", "</p>"} THEN <<NL, NL>>
    ELSE IF c \in {"<b>", "</b>"} THEN <<"**">>
    ELSE <<c>>
RECURSIVE Markdown(_)
Markdown(s) == IF s = <<>> THEN <<>> ELSE MarkdownOf(Head(s)) \o Markdown(Tail(s))
\* html_util.py lines 3-43
html_to_markdown(html_content) ==
    IF ~IsStr(html_content) THEN ClientRaised("AttributeError")
    ELSE ClientReturned(Str(Strip(Markdown(html_content.v))))

\* lines 104-105: one item of the loop
ProcessItem(item) ==
    IF item.k \in {"null", "num"} THEN ClientRaised("TypeError")
    ELSE IF ~PyIn("content", item) THEN ClientReturned(item)
    ELSE IF ~IsDict(item) THEN ClientRaised("TypeError")
    ELSE IF html_to_markdown(GetKey(item, <<"content">>)).exc # "none"
         THEN html_to_markdown(GetKey(item, <<"content">>))
    ELSE ClientReturned(Dict(PutKey(item.v, <<"content">>,
                                    html_to_markdown(GetKey(item, <<"content">>)).val)))
\* items[:max_results], for max_results >= 0
Truncate(xs, max_results) ==
    SubSeq(xs, 1, IF Len(xs) < max_results THEN Len(xs) ELSE max_results)
\* lines 102-105 on a list of items
ProcessItems(dict_data, kept) ==
    IF \A i \in 1..Len(kept) : ProcessItem(kept[i]).exc = "none"
    THEN ClientReturned(Dict(PutKey(dict_data.v, <<"items">>,
                                    List([i \in 1..Len(kept) |-> ProcessItem(kept[i]).val]))))
    ELSE ProcessItem(kept[CHOOSE i \in 1..Len(kept) :
                             /\ ProcessItem(kept[i]).exc # "none"
                             /\ \A j \in 1..(i - 1) : ProcessItem(kept[j]).exc = "none"])
\* lines 97-107
process_blog_posts(dict_data, max_results) ==
    IF dict_data.k \in {"null", "num"} THEN ClientRaised("TypeError")
    ELSE IF ~PyIn("items", dict_data) THEN ClientReturned(dict_data)
    ELSE IF ~IsDict(dict_data) THEN ClientRaised("TypeError")
    ELSE IF IsStr(GetKey(dict_data, <<"items">>))
         THEN ClientReturned(Dict(PutKey(dict_data.v, <<"items">>,
                  Str(Truncate(GetKey(dict_data, <<"items">>).v, max_results)))))
    ELSE IF ~IsList(GetKey(dict_data, <<"items">>)) THEN ClientRaised("TypeError")
    ELSE ProcessItems(dict_data, Truncate(GetKey(dict_data, <<"items">>).v, max_results))
\* lines 90-91
SearchPostsOf(j, max_results) ==
    IF j.exc # "none" THEN j ELSE process_blog_posts(j.val, max_results)
\* lines 76-95: only HTTPStatusError is caught, and only 404 returns in the
\* handler; the method then ends without a return statement
search_posts(resp, max_results) ==
    IF resp.kind = "request_error" THEN ClientRaised("RequestError")
    ELSE IF ~IsSuccess(resp) THEN ClientReturned(Null)
    ELSE SearchPostsOf(JsonOf(Loads(resp.text)), max_results)

\* the outcome of a tool: the value it returns or the exception it raises, and
\* the requests it sent to the Blogger API
ToolReturned(x, requests) == [exc |-> "none", val |-> x, requests |-> requests]
ToolRaised(e, requests) == [exc |-> e, val |-> Null, requests |-> requests]
\* bool(x)
Truthy(x) ==
    CASE x.k = "null" -> FALSE
      [] x.k = "num"  -> x.v # "0"
      [] OTHER        -> x.v # <<>>
\* str(n), for the lengths that occur
Decimal(n) == IF n = 0 THEN "0" ELSE <<"1", "2", "3", "4", "5">>[n]

\* the GET requests of the client: lines 26, 52 and 88 of blogger_api_client.py
BlogRequest(blog_url) == [endpoint |-> "blogs/byurl", arg |-> blog_url]
PostsRequest(tool, blog_id) ==
    [endpoint |-> IF tool = "search_posts" THEN "posts/search" ELSE "posts",
     arg |-> PyStr(blog_id)]

\* server.py lines 74, 123, 182, 240
AccessDenied(what, blog_url) ==
    Dict(<<Member("error", Str(<<"Access denied: ", "This tool can only query ", what,
                                 " from pre-approved domains.">>)),
           Member("requested_url", Str(blog_url))>>)
\* lines 94, 127, 186, 244
CouldNotFind(prep, rest, blog_url) ==
    Dict(<<Member("error", Str(<<"Could not find blog ", prep, " ">> \o blog_url
                               \o <<". It might not exist or ", rest>>)),
           Member("requested_url", Str(blog_url))>>)

\* lines 79-96
BlogInfoOf(blog_url, requests, c) ==
    IF c.exc # "none" THEN ToolRaised(c.exc, requests)
    ELSE IF ~Truthy(c.val)
         THEN ToolReturned(CouldNotFind("at", "the URL is incorrect.", blog_url), requests)
    ELSE IF c.val.k = "num" THEN ToolRaised("TypeError", requests)
    ELSE IF PyIn("error", c.val) THEN
         IF ~IsDict(c.val) THEN ToolRaised("TypeError", requests)
         ELSE ToolReturned(
                 Dict(<<Member("error", Str(<<"Failed to retrieve blog info: ">>
                                            \o PyStr(GetKey(c.val, <<"error">>)))),
                        Member("requested_url", Str(blog_url))>>), requests)
    ELSE IF ~IsDict(c.val) THEN ToolRaised("AttributeError", requests)
    ELSE ToolReturned(
            Dict(<<Member("blog_id", GetOr(c.val, <<"id">>, Null)),
                   Member("blog_title", GetOr(c.val, <<"name">>, Null)),
                   Member("blog_url", GetOr(c.val, <<"url">>, Null)),
                   Member("description", GetOr(c.val, <<"description">>,
                                               W("No description available."))),
                   Member("published_date", GetOr(c.val, <<"published">>, Null))>>),
            requests)
\* lines 59-96
get_blog_info_by_url(allowed, blog_url, blog_resp) ==
    IF ~is_allowed_domain(allowed, blog_url)
    THEN ToolReturned(AccessDenied("blogs", blog_url), <<>>)
    ELSE BlogInfoOf(blog_url, <<BlogRequest(blog_url)>>, get_blog_by_url(blog_resp))

\* lines 154, 212, 271
NoPostsFound(tool, blog_url, query_terms) ==
    Dict(<<Member("error",
                  Str((IF tool = "search_posts"
                       THEN <<"No posts found matching '">> \o query_terms \o <<"' for ">>
                       ELSE <<"No recent posts found for ">>)
                      \o blog_url \o <<" or an issue with the Blogger API.">>)),
           Member("blog_url", Str(blog_url))>>)
\* lines 135, 194, 252
FailedToRetrieve(blog_url, error) ==
    Dict(<<Member("error", Str(<<"Failed to retrieve posts: ">> \o PyStr(error))),
           Member("blog_url", Str(blog_url))>>)
\* lines 139-144, 198-202, 256-261: the view of one post
PostView(tool, post) ==
    Dict(<<Member("title", GetOr(post, <<"title">>, Null)),
           Member("url", GetOr(post, <<"url">>, Null)),
           Member("published", GetOr(post, <<"published">>, Null))>>
         \o (IF tool = "list_recent_posts" THEN <<>>
             ELSE <<Member("content", GetOr(post, <<"content">>, Str(<<>>)))>>))
\* lines 138-152, 197-210, 255-269
PostsView(tool, blog_url, blog_data, posts_data, items, requests) ==
    IF ~Iterable(items) THEN ToolRaised("TypeError", requests)
    ELSE IF \E i \in 1..Len(Elements(items)) : ~IsDict(Elements(items)[i])
         THEN ToolRaised("AttributeError", requests)
    ELSE ToolReturned(
            Dict(<<Member("blog_title", GetOr(blog_data, <<"name">>, Null)),
                   Member("blog_url", Str(blog_url)),
                   Member("total_posts_found",
                          GetOr(posts_data, <<"totalItems">>, Num(Decimal(Len(items.v))))),
                   Member(IF tool = "search_posts" THEN "matching_posts"
                          ELSE "recent_posts",
                          List([i \in 1..Len(items.v) |-> PostView(tool, items.v[i])]))>>),
            requests)
\* lines 132-154, 191-212, 249-271
PostsOf(tool, blog_url, query_terms, blog_data, requests, p) ==
    IF p.exc # "none" THEN ToolRaised(p.exc, requests)
    ELSE IF ~Truthy(p.val)
         THEN ToolReturned(NoPostsFound(tool, blog_url, query_terms), requests)
    ELSE IF ~IsDict(p.val) THEN ToolRaised("AttributeError", requests)
    ELSE IF ~Truthy(GetOr(p.val, <<"items">>, Null))
         THEN ToolReturned(NoPostsFound(tool, blog_url, query_terms), requests)
    ELSE IF HasKey(p.val, <<"error">>)
         THEN ToolReturned(FailedToRetrieve(blog_url, GetKey(p.val, <<"error">>)), requests)
    ELSE PostsView(tool, blog_url, blog_data, p.val, GetKey(p.val, <<"items">>), requests)
\* lines 130, 189, 247: the method of the client that the tool calls
ClientPosts(tool, posts_resp, num_posts) ==
    IF tool = "search_posts" THEN search_posts(posts_resp, num_posts)
    ELSE get_recent_posts(posts_resp)
\* lines 126-130, 185-189, 243-247
PostsOfBlog(tool, blog_url, query_terms, num_posts, c, posts_resp) ==
    IF c.exc # "none" THEN ToolRaised(c.exc, <<BlogRequest(blog_url)>>)
    ELSE IF ~Truthy(c.val)
         THEN ToolReturned(CouldNotFind("for", "there was an API issue.", blog_url),
                           <<BlogRequest(blog_url)>>)
    ELSE IF c.val.k = "num" THEN ToolRaised("TypeError", <<BlogRequest(blog_url)>>)
    ELSE IF PyIn("error", c.val)
         THEN ToolReturned(CouldNotFind("for", "there was an API issue.", blog_url),
                           <<BlogRequest(blog_url)>>)
    ELSE IF ~IsDict(c.val) THEN ToolRaised("AttributeError", <<BlogRequest(blog_url)>>)
    ELSE IF ~Truthy(GetOr(c.val, <<"id">>, Null))
         THEN ToolReturned(CouldNotFind("for", "there was an API issue.", blog_url),
                           <<BlogRequest(blog_url)>>)
    ELSE PostsOf(tool, blog_url, query_terms, c.val,
                 <<BlogRequest(blog_url), PostsRequest(tool, GetKey(c.val, <<"id">>))>>,
                 ClientPosts(tool, posts_resp, num_posts))
\* lines 106-154 (get_recent_posts), 165-212 (list_recent_posts) and 222-271
\* (search_posts)
posts_tool(tool, allowed, blog_url, query_terms, num_posts, blog_resp, posts_resp) ==
    IF ~is_allowed_domain(allowed, blog_url)
    THEN ToolReturned(AccessDenied("posts", blog_url), <<>>)
    ELSE PostsOfBlog(tool, blog_url, query_terms, num_posts,
                     get_blog_by_url(blog_resp), posts_resp)


\* the inputs of the server: values of the environment variable, URLs,
\* answers of the Blogger API
DomainSettings ==
    { <<>>,
      <<"blog.example.com">>,
      <<"blog.example.com", ",", SP, "www.example.org">>,
      <<"blog.example.com", ",">> }
HttpsUrl(host) == <<"https", ":", "/", "/">> \o host
BlogUrls ==
    { HttpsUrl(<<"blog.example.com", "/">>),
      HttpsUrl(<<"www.example.org">>),
      HttpsUrl(<<"evil.example.net", "/">>),
      HttpsUrl(<<"blog.example.com", ":", "443", "/">>),
      HttpsUrl(<<"blog.example.com", "@", "evil.example.net", "/">>),
      HttpsUrl(<<"evil.example.net", "/", "?", "u=">>) \o HttpsUrl(<<"blog.example.com">>),
      HttpsUrl(<<"[", "/">>),
      <<"blog.example.com", "/", "feed">>,
      <<>> }
QueryTerms == {<<"tla">>, <<>>}
NumPosts == {1, 3}

BlogDocument == Dict(<<Member("id", W("7")), Member("name", W("Tech"))>>)
HelloPost ==
    Dict(<<Member("title", W("Hello")), Member("url", W("u1")),
           Member("content", Str(<<"<p>", "Hello", SP, "<b>", "world", "</b>", "</p>">>))>>)
ByePost == Dict(<<Member("title", W("Bye")), Member("published", W("2024"))>>)
UntitledPost == Dict(<<Member("url", W("u3"))>>)
ApiFailures ==
    { HttpResponse("404", <<"Not Found">>),
      HttpResponse("500", <<"Backend Error">>),
      RequestError("All connection attempts failed") }
BlogResponses ==
    { HttpResponse("200", Dumps(BlogDocument)),
      HttpResponse("200", Dumps(Dict(<<Member("name", W("Tech"))>>))),
      HttpResponse("200", Dumps(List(<<Num("1")>>))),
      HttpResponse("200", SubSeq(Dumps(BlogDocument), 1, 6)) }
    \cup ApiFailures
PostsResponses ==
    { HttpResponse("200", Dumps(Dict(<<Member("items", List(<<HelloPost, ByePost>>))>>))),
      HttpResponse("200", Dumps(Dict(<<Member("items", List(<<ByePost>>)),
                                       Member("totalItems", Num("5"))>>))),
      HttpResponse("200", Dumps(Dict(<<Member("items", List(<<>>))>>))),
      HttpResponse("200", Dumps(Dict(<<>>))),
      HttpResponse("200", Dumps(Dict(<<Member("items", List(<<UntitledPost>>))>>))),
      HttpResponse("200", Dumps(Dict(<<Member("items", List(<<ByePost>>)),
                                       Member("error", W("partial"))>>))),
      HttpResponse("200", SubSeq(Dumps(Dict(<<Member("items", List(<<ByePost>>))>>)), 1, 6)) }
    \cup ApiFailures

----------------------------------------------------------------------------
(* The agent (demo/ollama_mcp_agent.py).  In a user query every word, every *)
(* space and every run of characters between the phrases the agent matches *)
(* is one element: blogs is <<"blog", "s">>.                               *)

\* str.lower() on one element
LowerOf(c) ==
    CASE c = "AI"   -> "ai"
      [] c = "Our"  -> "our"
      [] c = "Blog" -> "blog"
      [] c = "Get"  -> "get"
      [] c = "EXIT" -> "exit"
      [] OTHER      -> c
\* text.lower()
Lower(text) == [i \in 1..Len(text) |-> LowerOf(text[i])]
\* text.replace(old, new), for a non-empty old
RECURSIVE Replace(_, _, _)
Replace(text, old, new) ==
    IF text = <<>> THEN <<>>
    ELSE IF StartsWith(text, old)
         THEN new \o Replace(SubSeq(text, Len(old) + 1, Len(text)), old, new)
    ELSE <<Head(text)>> \o Replace(Tail(text), old, new)
\* the words of a phrase, separated by single spaces
RECURSIVE Phrase(_)
Phrase(words) ==
    IF Len(words) <= 1 THEN words
    ELSE <<Head(words), SP>> \o Phrase(Tail(words))

\* lines 30-34: self.known_blogs, in insertion order
OurBlogUrl == <<"https://blog.codonomics.com">>
known_blogs ==
    << <<Phrase(<<"our", "company", "blog">>), OurBlogUrl>>,
       <<Phrase(<<"our", "blog">>), OurBlogUrl>>,
       <<(<<"https://kartzontech.", "blog", "s", "pot.com">>), OurBlogUrl>> >>
\* line 81: the string literal, which is not an f-string
BracedLiteral == <<"{self.known_blogs.get('", "our", SP, "blog", "')}">>
\* lines 75-83: None or the URL of the first key the query contains
get_blog_url_from_query(query) ==
    IF \E i \in 1..Len(known_blogs) : IsInfix(known_blogs[i][1], Lower(query))
    THEN Str(known_blogs[CHOOSE i \in 1..Len(known_blogs) :
                            /\ IsInfix(known_blogs[i][1], Lower(query))
                            /\ \A j \in 1..(i - 1) :
                                  ~IsInfix(known_blogs[j][1], Lower(query))][2])
    ELSE IF IsInfix(BracedLiteral, query) THEN Str(known_blogs[2][2])
    ELSE Null
\* lines 92-95
Normalise(user_query) ==
    Replace(Replace(Replace(Lower(user_query), <<"recent">>, <<"latest">>),
                    <<"blog", "s">>, <<"posts">>),
            Phrase(<<"our", "blog">>), known_blogs[2][2])

\* the index of the first occurrence of frag in text at or after from, or 0
FindFrom(text, frag, from) ==
    IF \E i \in from..(Len(text) - Len(frag) + 1) :
          \A j \in 1..Len(frag) : text[i + j - 1] = frag[j]
    THEN CHOOSE i \in from..(Len(text) - Len(frag) + 1) :
            /\ \A j \in 1..Len(frag) : text[i + j - 1] = frag[j]
            /\ \A h \in from..(i - 1) : \E j \in 1..Len(frag) : text[h + j - 1] # frag[j]
    ELSE 0
TopicPrefix == Phrase(<<"search", "for", "posts", "on", "topic">>) \o <<SP>>
\* the group of the pattern when the prefix starts at i
TopicGroup(input_str, start) ==
    IF FindFrom(input_str, <<SP, "in", SP>>, start) = 0 THEN Null
    ELSE Str(SubSeq(input_str, start, FindFrom(input_str, <<SP, "in", SP>>, start) - 1))
\* lines 38-45: re.search(r"search for posts on topic (.*?) in ", input_str)
find_string(input_str) ==
    IF FindFrom(input_str, TopicPrefix, 1) = 0 THEN Null
    ELSE TopicGroup(input_str, FindFrom(input_str, TopicPrefix, 1) + Len(TopicPrefix))

\* the outcome of a piece of process_user_query: the value it returns (None
\* when it ends without a return statement) or the exception it raises, and
\* whether it called the LLM
Replied(x, llm) == [exc |-> "none", val |-> x, llm |-> llm]
Failed(e) == [exc |-> e, val |-> Null, llm |-> FALSE]
\* lines 47-67: the answer of the LLM, or the message of the failure
call_ollama(llm_answer) ==
    IF llm_answer.ok THEN Replied(Str(llm_answer.text), TRUE)
    ELSE Replied(Str(<<"Error calling Ollama: ">> \o llm_answer.text), TRUE)

\* the exception of reading the keys of one post in a summary line
PostError(p, keys) ==
    IF ~IsDict(p) THEN "TypeError"
    ELSE IF \E key \in keys : ~HasKey(p, <<key>>) THEN "KeyError"
    ELSE "none"
\* lines 108-111, 128-131, 173: the summary lines of the posts
SummaryError(posts, keys) ==
    IF ~Iterable(posts) THEN "TypeError"
    ELSE IF \A i \in 1..Len(Elements(posts)) : PostError(Elements(posts)[i], keys) = "none"
         THEN "none"
    ELSE PostError(Elements(posts)[CHOOSE i \in 1..Len(Elements(posts)) :
                      /\ PostError(Elements(posts)[i], keys) # "none"
                      /\ \A j \in 1..(i - 1) : PostError(Elements(posts)[j], keys) = "none"],
                   keys)
Summarise(posts, keys, llm_answer) ==
    IF SummaryError(posts, keys) # "none" THEN Failed(SummaryError(posts, keys))
    ELSE call_ollama(llm_answer)

\* lines 107-117: the list branch has no else, the method goes on to its end
AfterListRecentPosts(tool_out, llm_answer) ==
    IF tool_out.k \in {"null", "num"} THEN Failed("TypeError")
    ELSE IF PyIn("error", tool_out) THEN Replied(Null, FALSE)
    ELSE IF ~IsDict(tool_out) THEN Failed("AttributeError")
    ELSE IF ~Truthy(GetOr(tool_out, <<"recent_posts">>, Null)) THEN Replied(Null, FALSE)
    ELSE Summarise(GetKey(tool_out, <<"recent_posts">>), {"title", "url", "published"},
                   llm_answer)
\* lines 127-139
AfterGetRecentPosts(tool_out, llm_answer) ==
    IF tool_out.k \in {"null", "num"} THEN Failed("TypeError")
    ELSE IF ~IsDict(tool_out) THEN Failed("AttributeError")
    ELSE IF HasKey(tool_out, <<"error">>)
            \/ ~Truthy(GetOr(tool_out, <<"recent_posts">>, Null))
         THEN Replied(Str(<<"Failed to get latest posts: ">>
                          \o PyStr(GetOr(tool_out, <<"error">>, W("No posts found.")))),
                      FALSE)
    ELSE Summarise(GetKey(tool_out, <<"recent_posts">>), {"title", "url", "published"},
                   llm_answer)
\* lines 149-159
AfterGetBlogInfo(tool_out, llm_answer) ==
    IF tool_out.k \in {"null", "num"} THEN Failed("TypeError")
    ELSE IF PyIn("error", tool_out) THEN
         IF ~IsDict(tool_out) THEN Failed("TypeError")
         ELSE Replied(Str(<<"Failed to get blog info: ">>
                          \o PyStr(GetKey(tool_out, <<"error">>))), FALSE)
    ELSE IF ~IsDict(tool_out) THEN Failed("AttributeError")
    ELSE call_ollama(llm_answer)
\* lines 171-183
AfterSearchPosts(tool_out, llm_answer) ==
    IF tool_out.k \in {"null", "num"} THEN Failed("TypeError")
    ELSE IF PyIn("error", tool_out) THEN
         IF ~IsDict(tool_out) THEN Failed("TypeError")
         ELSE Replied(Str(<<"Failed to search posts: ">>
                          \o PyStr(GetKey(tool_out, <<"error">>))), FALSE)
    ELSE IF ~IsDict(tool_out) THEN Failed("AttributeError")
    ELSE IF ~Truthy(GetOr(tool_out, <<"matching_posts">>, Null))
         THEN Replied(Str(<<"No search results found.">>), FALSE)
    ELSE Summarise(GetKey(tool_out, <<"matching_posts">>), {"title", "url"}, llm_answer)

\* the outcome of process_user_query: the outcome of its last piece and the
\* tool calls it made
QueryOutcome(calls, r) == [exc |-> r.exc, val |-> r.val, llm |-> r.llm, calls |-> calls]
ToolCall(tool, blog_url, query_terms) ==
    [tool |-> tool, blog_url |-> blog_url, query_terms |-> query_terms]
\* lines 163-183
SearchBranch(blog_url, search_term, tool_out, llm_answer) ==
    IF ~Truthy(search_term)
    THEN QueryOutcome(<<>>, Replied(
            Str(<<"Please specify a search term after 'search for posts on topic'.">>),
            FALSE))
    ELSE QueryOutcome(<<ToolCall("search_posts", blog_url, search_term.v)>>,
                      AfterSearchPosts(tool_out, llm_answer))
\* lines 100-183: the branches on the normalised query; tool_out is what
\* call_mcp_tool returns when a branch calls it
Dispatch(user_query, blog_url, tool_out, llm_answer) ==
    IF IsInfix(Phrase(<<"list", "recent", "posts">>), user_query)
       /\ IsInfix(blog_url, user_query)
    THEN QueryOutcome(<<ToolCall("list_recent_posts", blog_url, <<>>)>>,
                      AfterListRecentPosts(tool_out, llm_answer))
    ELSE IF IsInfix(Phrase(<<"latest", "posts", "from">>), user_query)
    THEN QueryOutcome(<<ToolCall("get_recent_posts", blog_url, <<>>)>>,
                      AfterGetRecentPosts(tool_out, llm_answer))
    ELSE IF IsInfix(<<"about", SP>> \o blog_url, user_query)
    THEN QueryOutcome(<<ToolCall("get_blog_info_by_url", blog_url, <<>>)>>,
                      AfterGetBlogInfo(tool_out, llm_answer))
    ELSE IF IsInfix(Phrase(<<"search", "for", "posts", "on", "topic">>), user_query)
            /\ IsInfix(blog_url, user_query)
    THEN SearchBranch(blog_url, find_string(user_query), tool_out, llm_answer)
    ELSE QueryOutcome(<<>>, Replied(Null, FALSE))
\* lines 85-183
process_user_query(user_query, tool_out, llm_answer) ==
    IF ~Truthy(get_blog_url_from_query(user_query))
    THEN QueryOutcome(<<>>, Replied(
            Str(<<"Unknown blog source. Please specify which blog you are referring to.">>),
            FALSE))
    ELSE Dispatch(Normalise(user_query), get_blog_url_from_query(user_query).v,
                  tool_out, llm_answer)

\* the inputs of the agent: lines typed by the user, answers of the MCP
\* server to tools/list and tools/call, answers of the LLM
UserInputs ==
    { <<"exit">>, <<"EXIT">>, <<"hello">>,
      Phrase(<<"list", "recent", "posts", "from", "our", "blog">>),
      Phrase(<<"Get", "latest", "posts", "from", "Our", "Blog">>),
      Phrase(<<"recent", "blog">>) \o <<"s", SP>> \o Phrase(<<"from", "our", "company", "blog">>),
      Phrase(<<"tell", "me", "about", "our", "blog">>),
      Phrase(<<"tell", "me", "about", "https://kartzontech.">>) \o <<"blog", "s", "pot.com">>,
      Phrase(<<"what", "is", "new", "on", "our", "blog">>),
      Phrase(<<"search", "for", "posts", "on", "topic", "AI", "in", "our", "blog">>),
      Phrase(<<"search", "for", "posts", "on", "topic", "in", "our", "blog">>),
      Phrase(<<"search", "for", "posts", "on", "topic", "AI", "in", "our", "blog">>) \o <<"s">>,
      Phrase(<<"is", "this", "our">>) \o <<SP>> \o BracedLiteral }
LlmAnswers == { [ok |-> TRUE, text |-> <<"Summary">>], [ok |-> FALSE, text |-> <<"timed out">>] }
AgentDiscoveries ==
    { HttpResponse("200", SseBody(ToolsDocument(<<BlogInfoTool, SearchTool>>))),
      RequestError("All connection attempts failed") }
\* what the tools of the server return
AgentToolResults ==
    { Dict(<<Member("blog_title", W("Tech")),
             Member("recent_posts", List(<<PostView("list_recent_posts", HelloPost)>>))>>),
      Dict(<<Member("recent_posts", List(<<Dict(<<Member("title", W("Hello"))>>)>>))>>),
      Dict(<<Member("blog_title", W("Tech")),
             Member("matching_posts", List(<<PostView("search_posts", HelloPost)>>))>>),
      Dict(<<Member("blog_title", W("Tech")), Member("matching_posts", List(<<>>))>>),
      Dict(<<Member("blog_id", W("7")), Member("blog_title", W("Tech"))>>),
      AccessDenied("posts", OurBlogUrl),
      Dict(<<>>) }
AgentResponses ==
    { HttpResponse("200", SseBody(Envelope(<<Member("result", TextResult(x))>>))) :
         x \in AgentToolResults }
    \cup { HttpResponse("200", PlainBody(Envelope(<<Member("result", Null)>>))),
           HttpResponse("200", PlainBody(Envelope(<<Member("result", List(<<W("error")>>))>>))),
           HttpResponse("500", <<"Internal Server Error">>),
           RequestError("All connection attempts failed") }

----------------------------------------------------------------------------
(* The state.                                                              *)

MaxTime == 2
MaxCalls == 2
MaxQueries == 2
\* the cache_ttl given to the constructor, in ticks of the clock
cache_ttl == 1

VARIABLES
    response,            \* the transport's answer to the last tools/call
    parsed_sse_data,     \* the local of that call: <<>> or <<the envelope>>
    tool_output,         \* what that call_mcp_tool did: [exc, val, exit]
    now,                 \* datetime.now()
    available_tools,     \* self._available_tools: [none, tools]
    last_refresh,        \* self._last_refresh: [none, t]
    force_refresh,       \* the argument of the last get_tools
    get_tools_output,    \* what that get_tools did: [exc, val]
    discovery_response,  \* the transport's answer to the last tools/list
    requests_sent,       \* the tools/list requests that get_tools sent
    discovery_log,       \* every tools/list request sent: [t, force, n tools fetched]
    n_get_tools,         \* the calls of get_tools so far
    settings,            \* the server's settings: [loaded, ALLOWED_DOMAINS]
    tool_call,           \* the tool call the server received: [tool, blog_url, ...]
    tool_result,         \* what the tool did: [exc, val]
    api_requests,        \* the requests that call sent to the Blogger API
    blog_response,       \* the Blogger API's answer to the blog lookup
    posts_response,      \* the Blogger API's answer to the posts request
    agent_pc,            \* where main of the agent is
    transport_handle,    \* self.mcp_tools.client: "none", "open" or "closed"
    n_close,             \* the calls of close on the MCP client
    pending_exc,         \* the exception that leaves the async with block
    agent_reply,         \* what the last process_user_query did: [exc, val, llm, calls]
    n_queries,           \* the queries processed so far
    query_asked,         \* the user_query of the last process_user_query
    requests_made        \* the requests the agent made through the MCP client

invoker_vars == <<response, parsed_sse_data, tool_output>>
registry_vars == <<now, available_tools, last_refresh, force_refresh, get_tools_output,
                   discovery_response, requests_sent, discovery_log, n_get_tools>>
server_vars == <<settings, tool_call, tool_result, api_requests, blog_response,
                 posts_response>>
agent_vars == <<agent_pc, transport_handle, n_close, pending_exc, agent_reply, n_queries,
                query_asked, requests_made>>
vars == <<invoker_vars, registry_vars, server_vars, agent_vars>>

NoToolCall == [tool |-> "none", blog_url |-> <<>>, query_terms |-> <<>>, num_posts |-> 0]

\* lines 39-43
Init ==
    /\ response = NoCall
    /\ parsed_sse_data = <<>>
    /\ tool_output = Returned(Null, "none")
    /\ now = 0
    /\ available_tools = [none |-> TRUE, tools |-> <<>>]
    /\ last_refresh = [none |-> TRUE, t |-> 0]
    /\ force_refresh = FALSE
    /\ get_tools_output = [exc |-> "none", val |-> <<>>]
    /\ discovery_response = NoCall
    /\ requests_sent = 0
    /\ discovery_log = <<>>
    /\ n_get_tools = 0
    /\ settings = [loaded |-> FALSE, ALLOWED_DOMAINS |-> {}]
    /\ tool_call = NoToolCall
    /\ tool_result = [exc |-> "none", val |-> Null]
    /\ api_requests = <<>>
    /\ blog_response = NoCall
    /\ posts_response = NoCall
    /\ agent_pc = "start"
    /\ transport_handle = "none"
    /\ n_close = 0
    /\ pending_exc = "none"
    /\ agent_reply = QueryOutcome(<<>>, Replied(Null, FALSE))
    /\ n_queries = 0
    /\ query_asked = <<>>
    /\ requests_made = 0

\* the local parsed_sse_data, when line 157 or 165 assigned it
ParsedLocal(env) == IF env.exit = "parsed" THEN <<env.val>> ELSE <<>>

\* one call of call_mcp_tool, answered by the transport with resp; the method
\* keeps no state, a behaviour follows one call
CallMcpTool(resp) ==
    /\ response = NoCall
    /\ response' = resp
    /\ parsed_sse_data' = IF IsSuccess(resp) THEN ParsedLocal(ParseEnvelope(resp.text))
                          ELSE <<>>
    /\ tool_output' = call_mcp_tool(resp)
    /\ UNCHANGED <<registry_vars, server_vars, agent_vars>>

\* line 113: not self._available_tools
NoTools(cache) == cache.none \/ cache.tools = <<>>
\* lines 113-114: the condition of the refresh
NeedsRefresh(force, cache, refreshed, t) ==
    \/ force
    \/ NoTools(cache)
    \/ (~refreshed.none /\ t - refreshed.t > cache_ttl)

\* a variant that keeps the cached tools when the fetch returns none
NewCache_KeepOnEmpty(cache, tools) ==
    IF tools = <<>> /\ ~cache.none THEN cache ELSE [none |-> FALSE, tools |-> tools]
\* line 116: the assignment to self._available_tools
NewCache(cache, tools) == [none |-> FALSE, tools |-> tools]

\* lines 109-119: one call of get_tools, whose tools/list request, if it sends
\* one, the transport answers with resp
RegistryCall(force, resp) ==
    /\ n_get_tools < MaxCalls
    /\ n_get_tools' = n_get_tools + 1
    /\ force_refresh' = force
    /\ IF NeedsRefresh(force, available_tools, last_refresh, now)
       THEN LET fetched == fetch_tools(resp) IN
            /\ discovery_response' = resp
            /\ requests_sent' = fetched.posts
            /\ discovery_log' = discovery_log
                                \o [i \in 1..fetched.posts |->
                                       [t |-> now, force |-> force, n |-> Len(fetched.val)]]
            /\ IF fetched.exc = "none"
               THEN /\ available_tools' = NewCache(available_tools, fetched.val)
                    /\ last_refresh' = [none |-> FALSE, t |-> now]
                    /\ get_tools_output' = [exc |-> "none", val |-> fetched.val]
               ELSE /\ UNCHANGED <<available_tools, last_refresh>>
                    /\ get_tools_output' = [exc |-> fetched.exc, val |-> <<>>]
       ELSE /\ requests_sent' = 0
            /\ get_tools_output' = [exc |-> "none", val |-> available_tools.tools]
            /\ UNCHANGED <<discovery_response, discovery_log, available_tools, last_refresh>>

\* get_tools called on its own
GetTools(force, resp) ==
    /\ RegistryCall(force, resp)
    /\ UNCHANGED <<now, invoker_vars, server_vars, agent_vars>>

\* the clock advances
Tick ==
    /\ now < MaxTime
    /\ now' = now + 1
    /\ UNCHANGED <<invoker_vars, available_tools, last_refresh, force_refresh,
                   get_tools_output, discovery_response, requests_sent, discovery_log,
                   n_get_tools, server_vars, agent_vars>>

\* config.py line 78: settings = Settings(), on the value v of the environment
\* variable ALLOWED_DOMAINS
LoadSettings(v) ==
    /\ ~settings.loaded
    /\ settings' = [loaded |-> TRUE, ALLOWED_DOMAINS |-> parse_allowed_domains(v)]
    /\ UNCHANGED <<tool_call, tool_result, api_requests, blog_response, posts_response,
                   invoker_vars, registry_vars, agent_vars>>

\* the server answers the call with out; the tools keep no state, a behaviour
\* follows one call
Serve(call, out, blog_resp, posts_resp) ==
    /\ settings.loaded
    /\ tool_call = NoToolCall
    /\ tool_call' = call
    /\ tool_result' = [exc |-> out.exc, val |-> out.val]
    /\ api_requests' = out.requests
    /\ blog_response' = IF Len(out.requests) >= 1 THEN blog_resp ELSE NoCall
    /\ posts_response' = IF Len(out.requests) >= 2 THEN posts_resp ELSE NoCall
    /\ UNCHANGED <<settings, invoker_vars, registry_vars, agent_vars>>

\* server.py lines 59-96
GetBlogInfoByUrl(blog_url, blog_resp) ==
    Serve([tool |-> "get_blog_info_by_url", blog_url |-> blog_url,
           query_terms |-> <<>>, num_posts |-> 0],
          get_blog_info_by_url(settings.ALLOWED_DOMAINS, blog_url, blog_resp),
          blog_resp, NoCall)
\* server.py lines 106-154
GetRecentPosts(blog_url, num_posts, blog_resp, posts_resp) ==
    Serve([tool |-> "get_recent_posts", blog_url |-> blog_url,
           query_terms |-> <<>>, num_posts |-> num_posts],
          posts_tool("get_recent_posts", settings.ALLOWED_DOMAINS, blog_url, <<>>,
                     num_posts, blog_resp, posts_resp),
          blog_resp, posts_resp)
\* server.py lines 165-212
ListRecentPosts(blog_url, num_posts, blog_resp, posts_resp) ==
    Serve([tool |-> "list_recent_posts", blog_url |-> blog_url,
           query_terms |-> <<>>, num_posts |-> num_posts],
          posts_tool("list_recent_posts", settings.ALLOWED_DOMAINS, blog_url, <<>>,
                     num_posts, blog_resp, posts_resp),
          blog_resp, posts_resp)
\* server.py lines 222-271
SearchPosts(blog_url, query_terms, num_posts, blog_resp, posts_resp) ==
    Serve([tool |-> "search_posts", blog_url |-> blog_url,
           query_terms |-> query_terms, num_posts |-> num_posts],
          posts_tool("search_posts", settings.ALLOWED_DOMAINS, blog_url, query_terms,
                     num_posts, blog_resp, posts_resp),
          blog_resp, posts_resp)

NextServer ==
    \/ \E v \in DomainSettings : LoadSettings(v)
    \/ \E blog_url \in BlogUrls, blog_resp \in BlogResponses :
          GetBlogInfoByUrl(blog_url, blog_resp)
    \/ \E blog_url \in BlogUrls, num_posts \in NumPosts,
          blog_resp \in BlogResponses, posts_resp \in PostsResponses :
          GetRecentPosts(blog_url, num_posts, blog_resp, posts_resp)
    \/ \E blog_url \in BlogUrls, num_posts \in NumPosts,
          blog_resp \in BlogResponses, posts_resp \in PostsResponses :
          ListRecentPosts(blog_url, num_posts, blog_resp, posts_resp)
    \/ \E blog_url \in BlogUrls, query_terms \in QueryTerms, num_posts \in NumPosts,
          blog_resp \in BlogResponses, posts_resp \in PostsResponses :
          SearchPosts(blog_url, query_terms, num_posts, blog_resp, posts_resp)

\* ollama_mcp_agent.py lines 28-36 and 190-192, mcp_agent_tools.py line 50:
\* main constructs the agent, whose MCP client opens its transport handle, and
\* enters the async with block
EnterAgent ==
    /\ agent_pc = "start"
    /\ agent_pc' = "status_check"
    /\ transport_handle' = "open"
    /\ UNCHANGED <<n_close, pending_exc, agent_reply, n_queries, query_asked,
                   requests_made, invoker_vars, registry_vars, server_vars>>

\* a variant in which the failed check ends the process at once
StatusCheckExit_HardExit(status) == IF status = "running" THEN "show_tools" ELSE "exited"
\* lines 198-211: where the control goes after the check; sys.exit raises
\* SystemExit, which leaves the block through __aexit__
StatusCheckExit(status) == IF status = "running" THEN "show_tools" ELSE "aexit"
\* lines 198-211: ollama_status_check finds the model running, not running, or
\* the LLM service unreachable
OllamaStatusCheck(status) ==
    /\ agent_pc = "status_check"
    /\ agent_pc' = StatusCheckExit(status)
    /\ pending_exc' = IF status = "running" THEN "none" ELSE "SystemExit"
    /\ UNCHANGED <<transport_handle, n_close, agent_reply, n_queries, query_asked,
                   requests_made, invoker_vars, registry_vars, server_vars>>

\* lines 226-230 and 69-73: show_available_tools calls get_tools()
ShowAvailableTools(resp) ==
    /\ agent_pc = "show_tools"
    /\ RegistryCall(FALSE, resp)
    /\ requests_made' = requests_made + requests_sent'
    /\ agent_pc' = "conversation"
    /\ UNCHANGED <<now, transport_handle, n_close, pending_exc, agent_reply, n_queries,
                   query_asked, invoker_vars, server_vars>>

\* lines 236-237: the user types exit
LeaveConversation(user_input) ==
    /\ agent_pc = "conversation"
    /\ Lower(user_input) = <<"exit">>
    /\ agent_pc' = "aexit"
    /\ UNCHANGED <<transport_handle, n_close, pending_exc, agent_reply, n_queries,
                   query_asked, requests_made, invoker_vars, registry_vars, server_vars>>

\* lines 233-245: one round of the conversation on a query; an exception of
\* process_user_query is caught and the loop goes on.  resp answers the tool
\* call, if the query makes one
Converse(user_input, resp, llm_answer) ==
    /\ agent_pc = "conversation"
    /\ Lower(user_input) # <<"exit">>
    /\ n_queries < MaxQueries
    /\ n_queries' = n_queries + 1
    /\ query_asked' = user_input
    /\ agent_reply' = process_user_query(user_input, call_mcp_tool(resp).val, llm_answer)
    /\ requests_made' = requests_made + Len(agent_reply'.calls)
    /\ IF agent_reply'.calls # <<>>
       THEN /\ response' = resp
            /\ parsed_sse_data' = IF IsSuccess(resp)
                                  THEN ParsedLocal(ParseEnvelope(resp.text)) ELSE <<>>
            /\ tool_output' = call_mcp_tool(resp)
       ELSE UNCHANGED invoker_vars
    /\ UNCHANGED <<agent_pc, transport_handle, n_close, pending_exc,
                   registry_vars, server_vars>>

\* lines 248-252 and 257: KeyboardInterrupt inside the async with block
Interrupt ==
    /\ agent_pc \in {"status_check", "show_tools", "conversation"}
    /\ agent_pc' = "aexit"
    /\ pending_exc' = "KeyboardInterrupt"
    /\ UNCHANGED <<transport_handle, n_close, agent_reply, n_queries, query_asked,
                   requests_made, invoker_vars, registry_vars, server_vars>>

\* lines 194-196 and 186-188, mcp_agent_tools.py lines 211-213: __aexit__
\* closes the client; main ends, with the pending exception if there is one
AExit ==
    /\ agent_pc = "aexit"
    /\ n_close' = n_close + 1
    /\ transport_handle' = "closed"
    /\ agent_pc' = "exited"
    /\ UNCHANGED <<pending_exc, agent_reply, n_queries, query_asked, requests_made,
                   invoker_vars, registry_vars, server_vars>>

NextAgent ==
    \/ EnterAgent
    \/ \E status \in {"running", "not_running", "unreachable"} : OllamaStatusCheck(status)
    \/ \E resp \in AgentDiscoveries : ShowAvailableTools(resp)
    \/ \E user_input \in UserInputs : LeaveConversation(user_input)
    \/ \E user_input \in UserInputs, resp \in AgentResponses, llm_answer \in LlmAnswers :
          Converse(user_input, resp, llm_answer)
    \/ Interrupt
    \/ AExit

NextInvoker == \E resp \in CallOutcomes : CallMcpTool(resp)
NextRegistry ==
    \/ \E force \in BOOLEAN, resp \in DiscoveryOutcomes : GetTools(force, resp)
    \/ Tick

SpecInvoker == Init /\ [][NextInvoker]_vars
SpecRegistry == Init /\ [][NextRegistry]_vars
SpecServer == Init /\ [][NextServer]_vars
SpecAgent == Init /\ [][NextAgent]_vars

----------------------------------------------------------------------------
(* The claims about call_mcp_tool.                                         *)

Called == response.kind # "none"
\* the value is a failure descriptor: a mapping with a message under error
IsFailure(out) ==
    /\ out.exc = "none"
    /\ IsDict(out.val)
    /\ HasKey(out.val, <<"error">>)
    /\ IsStr(GetKey(out.val, <<"error">>))
FailureMessage(out) == GetKey(out.val, <<"error">>).v
\* the envelope the call parsed is a mapping
EnvelopeIsDict == parsed_sse_data # <<>> /\ IsDict(parsed_sse_data[1])

\* C3: call_mcp_tool never raises and, whatever the transport outcome and the
\* response body, returns a mapping, which on failure carries a message under
\* the key error.
C3_AlwaysReturnsMapping ==
    Called =>
        /\ tool_output.exc = "none"
        /\ IsDict(tool_output.val)
        /\ (tool_output.exit # "success" => IsFailure(tool_output))

\* C4: an envelope with an error member yields a failure whose message contains
\* error.message if present and "Unknown error" otherwise, also when the
\* envelope carries a result as well.
C4_ErrorMemberYieldsFailure ==
    (EnvelopeIsDict /\ HasKey(parsed_sse_data[1], <<"error">>)) =>
        LET error == GetKey(parsed_sse_data[1], <<"error">>)
            message == IF IsDict(error) /\ HasKey(error, <<"message">>)
                       THEN PyStr(GetKey(error, <<"message">>))
                       ELSE <<"Unknown error">>
        IN /\ tool_output.exit # "success"
           /\ IsFailure(tool_output)
           /\ IsInfix(message, FailureMessage(tool_output))

\* C5: an HTTP-success response whose envelope has result.content[0] =
\* {type: "text", text: json_encode(X)} returns exactly X, in the plain and in
\* the SSE framing.
C5_RoundTrip ==
    \A x \in Values :
        LET doc == Envelope(<<Member("result", TextResult(x))>>) IN
        response \in {HttpResponse("200", PlainBody(doc)), HttpResponse("200", SseBody(doc))}
            => tool_output = Returned(x, "success")
C5_Witness ==
    /\ response = HttpResponse("200", SseBody(Envelope(<<Member("result",
                      TextResult(Str(<<"a", QUOTE, BSLASH, "n">>)))>>)))
    /\ tool_output.val = Str(<<"a", QUOTE, BSLASH, "n">>)

\* the content of the first line of an SSE body that begins with data:
IsLineStart(text, p) == p = 1 \/ text[p - 1] = NL
DataLineStarts(text) ==
    {p \in 1..(Len(text) - 1) :
        IsLineStart(text, p) /\ text[p] = "data" /\ text[p + 1] = ":"}
HasDataLine(text) == DataLineStarts(text) # {}
FirstDataLine(text) ==
    LET start == CHOOSE p \in DataLineStarts(text) : \A q \in DataLineStarts(text) : p <= q
        ends == {p \in start..Len(text) : text[p] = NL}
        end == IF ends = {} THEN Len(text) + 1
               ELSE CHOOSE p \in ends : \A q \in ends : p <= q
    IN Strip(SubSeq(text, start + 2, end - 1))
IsSse(text) == StartsWith(text, <<"event", ":", SP, "message">>)

\* C6: a JSON-parse failure at the envelope layer yields a failure whose message
\* embeds the raw fragment: the data payload of an SSE body, the raw body of a
\* plain one, and the body of an SSE-marked response that has no data: line.
C6_ParseFailureEmbedsFragment ==
    IsSuccess(response) =>
        LET text == response.text IN
        /\ (IsSse(text) /\ HasDataLine(text) /\ ~Loads(FirstDataLine(text)).ok)
              => (IsFailure(tool_output)
                  /\ IsInfix(FirstDataLine(text), FailureMessage(tool_output)))
        /\ (IsSse(text) /\ ~HasDataLine(text))
              => (IsFailure(tool_output) /\ IsInfix(text, FailureMessage(tool_output)))
        /\ (~IsSse(text) /\ ~Loads(text).ok)
              => (IsFailure(tool_output) /\ IsInfix(text, FailureMessage(tool_output)))

\* C7: the envelope of an SSE body is the JSON document of its first data: line
\* alone, whatever follows that line; the envelope of any other body is the
\* whole body parsed as JSON.
C7_FirstDataLineOnly ==
    IsSuccess(response) =>
        LET text == response.text
            expected == IF ~IsSse(text) THEN Loads(text)
                        ELSE IF HasDataLine(text) THEN Loads(FirstDataLine(text))
                        ELSE JsonErr("no data line")
        IN parsed_sse_data = IF expected.ok THEN <<expected.val>> ELSE <<>>

\* C8: a JSON-RPC response with neither result nor error yields exactly the
\* message "Unexpected JSON-RPC response format ...", which no application-level,
\* transport or parse failure carries.
C8_MissingResultAndError ==
    /\ (/\ EnvelopeIsDict
        /\ ~HasKey(parsed_sse_data[1], <<"result">>)
        /\ ~HasKey(parsed_sse_data[1], <<"error">>))
          => (/\ IsFailure(tool_output)
              /\ FailureMessage(tool_output) =
                   <<"Unexpected JSON-RPC response format from MCP server (missing 'result' or 'error' key).">>)
    /\ (/\ Called
        /\ tool_output.exit \in {"rpc_error", "http_status", "network", "unexpected_error",
                                 "sse_parse", "direct_parse", "nested_parse"})
          => (/\ IsFailure(tool_output)
              /\ FailureMessage(tool_output) #
                   <<"Unexpected JSON-RPC response format from MCP server (missing 'result' or 'error' key).">>)
C8_Witness ==
    /\ response = HttpResponse("200", PlainBody(Envelope(<<>>)))
    /\ tool_output.exit = "unexpected_format"
    /\ IsFailure(tool_output)

\* result is a mapping whose content is a non-empty list with first element a
\* mapping having type == "text" and a text key
HasTextShape(result) ==
    /\ result.k = "dict"
    /\ \E i \in 1..Len(result.v) :
          /\ result.v[i][1] = <<"content">>
          /\ result.v[i][2].k = "list"
          /\ Len(result.v[i][2].v) >= 1
          /\ LET first == result.v[i][2].v[1] IN
             /\ first.k = "dict"
             /\ \E t \in 1..Len(first.v) :
                   first.v[t][1] = <<"type">> /\ first.v[t][2] = Str(<<"text">>)
             /\ \E t \in 1..Len(first.v) : first.v[t][1] = <<"text">>

\* C10: a result that has not the content/text shape is returned unchanged, and
\* unwrapping is one level deep: a decoded value that itself has the shape is
\* returned as it is.
C10_OneLevelUnwrap ==
    (EnvelopeIsDict /\ HasKey(parsed_sse_data[1], <<"result">>)) =>
        LET result == GetKey(parsed_sse_data[1], <<"result">>) IN
        /\ ~HasTextShape(result) => tool_output = Returned(result, "success")
        /\ \A x \in Values :
              (HasTextShape(x) /\ result = TextResult(x))
                  => tool_output = Returned(x, "success")
C10_Witness ==
    /\ EnvelopeIsDict
    /\ HasKey(parsed_sse_data[1], <<"result">>)
    /\ GetKey(parsed_sse_data[1], <<"result">>) = TextResult(TextResult(BlogInfo))
    /\ tool_output = Returned(TextResult(BlogInfo), "success")
C10_WitnessUnchanged ==
    /\ EnvelopeIsDict
    /\ HasKey(parsed_sse_data[1], <<"result">>)
    /\ ~HasTextShape(GetKey(parsed_sse_data[1], <<"result">>))
    /\ tool_output.val = Dict(<<Member("content", List(<<Dict(<<Member("type", W("image")),
                                                              Member("text", W("1"))>>)>>))>>)

\* the text of the text block of a result that has the content/text shape
NestedTextOf(result) ==
    GetKey(GetKey(result, <<"content">>).v[1], <<"text">>)
\* the envelope carries a result with a text block whose text json.loads rejects
HasUndecodableText ==
    /\ EnvelopeIsDict
    /\ HasKey(parsed_sse_data[1], <<"result">>)
    /\ HasTextShape(GetKey(parsed_sse_data[1], <<"result">>))
    /\ LET text == NestedTextOf(GetKey(parsed_sse_data[1], <<"result">>))
       IN IsStr(text) => ~Loads(text.v).ok
\* C11: when result.content[0] is a text block whose text is not valid JSON, the
\* call returns a failure, never the text or the result as a success payload; the
\* message contains "JSON decoding error of nested content" and the raw text.
C11_NestedParseFailure ==
    HasUndecodableText =>
        LET result == GetKey(parsed_sse_data[1], <<"result">>)
            text == NestedTextOf(result)
        IN /\ IsFailure(tool_output)
           /\ tool_output.exit # "success"
           /\ tool_output.val \notin {text, result}
           /\ IsStr(text) =>
                 /\ IsInfix(<<"JSON decoding error of nested content: ">>,
                            FailureMessage(tool_output))
                 /\ IsInfix(text.v, FailureMessage(tool_output))
C11_Witness ==
    /\ HasUndecodableText
    /\ NestedTextOf(GetKey(parsed_sse_data[1], <<"result">>)) = Str(<<"not", SP, "json">>)
    /\ tool_output.exit = "nested_parse"

\* C12: a non-2xx status yields a failure whose message embeds the status code
\* and the response body, a connection failure or timeout one whose message
\* embeds the network error; in neither case is the body parsed as an envelope.
C12_TransportFailures ==
    /\ (response.kind = "response" /\ response.status # "200") =>
          /\ IsFailure(tool_output)
          /\ tool_output.exit = "http_status"
          /\ FailureMessage(tool_output) =
                <<"Tool call failed: HTTP ", response.status, " - ">> \o response.text
          /\ parsed_sse_data = <<>>
    /\ response.kind = "request_error" =>
          /\ IsFailure(tool_output)
          /\ tool_output.exit = "network"
          /\ IsInfix(response.text, FailureMessage(tool_output))
          /\ parsed_sse_data = <<>>
C12_Witness ==
    /\ response = HttpResponse("404", PlainBody(SampleEnvelope))
    /\ IsFailure(tool_output)
    /\ IsInfix(<<"404">>, FailureMessage(tool_output))

\* the call failed at the transport, parse, protocol or JSON-RPC error level
FailedAtSomeLevel ==
    \/ ~IsSuccess(response)
    \/ parsed_sse_data = <<>>
    \/ ~EnvelopeIsDict
    \/ (EnvelopeIsDict /\ HasKey(parsed_sse_data[1], <<"error">>))
    \/ (EnvelopeIsDict /\ ~HasKey(parsed_sse_data[1], <<"result">>))
    \/ HasUndecodableText
\* C16: a returned value is a success payload or a failure descriptor with a
\* message, and a returned mapping has an error key if and only if the call
\* failed at the transport, parse, protocol or JSON-RPC error level.
C16_ErrorKeyIffFailed ==
    (Called /\ IsDict(tool_output.val)) =>
        /\ HasKey(tool_output.val, <<"error">>) <=> FailedAtSomeLevel
        /\ HasKey(tool_output.val, <<"error">>) => IsFailure(tool_output)

----------------------------------------------------------------------------
(* The claims about get_tools.                                             *)

Unforced == \A i \in DOMAIN discovery_log : ~discovery_log[i].force
\* C1: as long as no call of get_tools forces a refresh, any two tools/list
\* requests are at least cache_ttl apart, whatever the discovery returned; two
\* calls in immediate succession send one request.
C1_OneDiscoveryPerWindow ==
    Unforced =>
        \A i, j \in DOMAIN discovery_log :
            i < j => discovery_log[j].t - discovery_log[i].t >= cache_ttl

GetToolsStep == n_get_tools' = n_get_tools + 1
SendsDiscovery == Len(discovery_log') = Len(discovery_log) + 1
\* a discovery call has completed
CacheExists == Len(discovery_log) > 0
\* C2: a call of get_tools sends a tools/list request if and only if
\* force_refresh is true, or no discovery call has completed yet, or
\* now - last_refresh > cache_ttl.
C2_RefreshIff ==
    [][GetToolsStep =>
          (SendsDiscovery <=>
              \/ force_refresh'
              \/ ~CacheExists
              \/ (~last_refresh.none /\ now - last_refresh.t > cache_ttl))]_vars

\* the last call of get_tools refreshed and the discovery failed
RefreshFailed == requests_sent >= 1 /\ discovery_response \in FailedDiscoveries
\* C9: when the refresh of a call of get_tools fails, the call returns the empty
\* list, raises nothing and has sent exactly one tools/list request.
C9_FailedRefreshReturnsEmpty ==
    RefreshFailed =>
        /\ get_tools_output = [exc |-> "none", val |-> <<>>]
        /\ requests_sent = 1
C9_Witness ==
    /\ requests_sent = 1
    /\ discovery_response = NamelessEntryDiscovery
    /\ get_tools_output = [exc |-> "none", val |-> <<>>]
    /\ n_get_tools = 2

\* the two wire forms of the tools/list response that lists entries
DiscoveryForms(entries) ==
    { HttpResponse("200", PlainBody(ToolsDocument(entries))),
      HttpResponse("200", SseBody(ToolsDocument(entries))) }
\* the member of an entry of result.tools, or default when the entry has none
EntryField(entry, key, default) ==
    IF \E i \in 1..Len(entry.v) : entry.v[i][1] = <<key>>
    THEN entry.v[CHOOSE i \in 1..Len(entry.v) : entry.v[i][1] = <<key>>][2]
    ELSE default
\* the ToolDefinition the entry stands for
ExpectedTool(entry) ==
    [name |-> EntryField(entry, "name", Null).v,
     description |-> EntryField(entry, "description", Str(<<>>)).v,
     parameters |-> EntryField(entry, "parameters", Dict(<<>>)),
     method |-> EntryField(entry, "name", Null).v]
ExpectedTools(entries) == [i \in 1..Len(entries) |-> ExpectedTool(entries[i])]
ValidToolLists == ToolLists \cup {<<>>}

\* C13: for a valid discovery response get_tools returns one ToolDefinition per
\* entry of result.tools, in the same order, with name and method the entry's
\* name, description defaulting to "" and parameters to {}.
C13_OneToolPerEntry ==
    \A entries \in ValidToolLists :
        (requests_sent >= 1 /\ discovery_response \in DiscoveryForms(entries))
            => get_tools_output = [exc |-> "none", val |-> ExpectedTools(entries)]
C13_Witness ==
    /\ requests_sent = 1
    /\ discovery_response = HttpResponse("200", PlainBody(ToolsDocument(<<SearchTool, BlogInfoTool>>)))
    /\ Len(get_tools_output.val) = 2
    /\ get_tools_output.val[1].name = <<"search_posts">>
    /\ get_tools_output.val[1].description = <<>>
    /\ get_tools_output.val[2].method = <<"get_blog_info_by_url">>

\* C14: the cached snapshot is empty or is the full tool list of one completed
\* discovery call, the latest: never a merge of two responses, never the
\* well-formed part of a response with a malformed entry.
C14_SnapshotOfOneDiscovery ==
    \/ available_tools.tools = <<>>
    \/ \E entries \in ToolLists :
          /\ discovery_response \in DiscoveryForms(entries)
          /\ available_tools.tools = ExpectedTools(entries)
C14_Witness ==
    /\ Len(discovery_log) = 2
    /\ force_refresh
    /\ discovery_response = HttpResponse("200", PlainBody(ToolsDocument(<<SearchTool>>)))
    /\ available_tools.tools = ExpectedTools(<<SearchTool>>)
    /\ get_tools_output.val = available_tools.tools

\* C15: last_refresh is absent until the first successful discovery: a call of
\* get_tools whose discovery fails leaves it absent.
C15_AbsentUntilSuccess ==
    [][(/\ GetToolsStep
        /\ SendsDiscovery
        /\ last_refresh.none
        /\ discovery_response' \in FailedDiscoveries) => last_refresh'.none]_vars

\* C20: a forced refresh that fails while a non-empty, non-expired cache exists
\* empties the cache and sets last_refresh to the time of the failed attempt;
\* get_tools returns the cache, so the former tools are not returned again until
\* a discovery succeeds.
C20_FailedRefreshOverwrites ==
    /\ [](n_get_tools > 0 => get_tools_output.val = available_tools.tools)
    /\ [][(/\ GetToolsStep
           /\ force_refresh'
           /\ available_tools.tools # <<>>
           /\ now - last_refresh.t <= cache_ttl
           /\ discovery_response' \in FailedDiscoveries)
          => (/\ SendsDiscovery
              /\ available_tools' = [none |-> FALSE, tools |-> <<>>]
              /\ last_refresh' = [none |-> FALSE, t |-> now]
              /\ get_tools_output' = [exc |-> "none", val |-> <<>>])]_vars
C20_Witness ==
    /\ Len(discovery_log) = 2
    /\ discovery_log[1].n > 0
    /\ discovery_log[2].force
    /\ discovery_log[2].n = 0
    /\ discovery_log[2].t - discovery_log[1].t <= cache_ttl
    /\ discovery_response \in FailedDiscoveries
    /\ available_tools = [none |-> FALSE, tools |-> <<>>]
    /\ last_refresh = [none |-> FALSE, t |-> discovery_log[2].t]
    /\ get_tools_output.val = <<>>
----------------------------------------------------------------------------
(* The claims about the server tools.                                      *)

ToolCalled == tool_call.tool # "none"
\* the netloc of the requested URL is not a configured domain, or none is
\* configured
NotAllowListed ==
    \/ settings.ALLOWED_DOMAINS = {}
    \/ urlparse(tool_call.blog_url).exc # "none"
    \/ urlparse(tool_call.blog_url).netloc \notin settings.ALLOWED_DOMAINS
\* the tool returned the access-denied descriptor for the requested URL
AccessWasDenied ==
    /\ tool_result.exc = "none"
    /\ IsDict(tool_result.val)
    /\ HasKey(tool_result.val, <<"error">>)
    /\ IsStr(GetKey(tool_result.val, <<"error">>))
    /\ StartsWith(GetKey(tool_result.val, <<"error">>).v, <<"Access denied: ">>)
    /\ GetOr(tool_result.val, <<"requested_url">>, Null) = Str(tool_call.blog_url)

\* C19: a call of any of the four tools whose blog_url has a netloc outside
\* ALLOWED_DOMAINS, or that arrives while ALLOWED_DOMAINS is empty, returns the
\* "Access denied" error carrying requested_url, and sends no request to the
\* Blogger API.
C19_AllowListFirst ==
    (ToolCalled /\ NotAllowListed) => (AccessWasDenied /\ api_requests = <<>>)
\* a posts tool called for a foreign host while domains are configured
C19_Witness ==
    /\ tool_call.tool = "search_posts"
    /\ settings.ALLOWED_DOMAINS # {}
    /\ NotAllowListed
    /\ AccessWasDenied
    /\ api_requests = <<>>

\* the posts request of the call was sent
PostsRequested == ToolCalled /\ posts_response # NoCall
\* what the client method of the tool made of the answer to the posts request
PostsData == ClientPosts(tool_call.tool, posts_response, tool_call.num_posts)
\* the client returned an error descriptor: a mapping with an error key
ClientErrorDescriptor ==
    /\ PostsData.exc = "none"
    /\ IsDict(PostsData.val)
    /\ HasKey(PostsData.val, <<"error">>)
\* C21: in get_recent_posts, list_recent_posts and search_posts, when the
\* client returns an error descriptor for the posts request, the tool returns
\* "Failed to retrieve posts: <client error>" with the client's error text,
\* not the generic "No recent posts found" / "No posts found matching" message.
C21_ClientErrorReported ==
    (PostsRequested /\ ClientErrorDescriptor)
        => /\ tool_result.exc = "none"
           /\ tool_result.val = FailedToRetrieve(tool_call.blog_url,
                                                 GetKey(PostsData.val, <<"error">>))

\* c is an error descriptor whose message embeds frag
ErrorEmbeds(c, frag) ==
    /\ c.exc = "none"
    /\ IsDict(c.val)
    /\ HasKey(c.val, <<"error">>)
    /\ IsStr(GetKey(c.val, <<"error">>))
    /\ IsInfix(frag, GetKey(c.val, <<"error">>).v)
\* the outcome c of a client method on the answer resp turns a failure into a
\* value
FailureIsValue(resp, c) ==
    /\ c.exc \notin {"HTTPStatusError", "RequestError"}
    /\ (resp.kind = "response" /\ resp.status = "404") => c = ClientReturned(Null)
    /\ (resp.kind = "response" /\ resp.status \notin {"200", "404"})
          => ErrorEmbeds(c, <<resp.status>>)
    /\ resp.kind = "request_error" => ErrorEmbeds(c, resp.text)
\* C22: every query method of BloggerAPIClient turns failures into values and
\* never raises an httpx error: a 404 yields None, any other HTTP error status
\* a mapping with an error key embedding the status code, a network-level
\* request error a mapping with an error key embedding the network error.
C22_ClientFailuresAreValues ==
    /\ blog_response # NoCall
          => FailureIsValue(blog_response, get_blog_by_url(blog_response))
    /\ PostsRequested => FailureIsValue(posts_response, PostsData)

----------------------------------------------------------------------------
(* The claims about the agent.                                            *)

MainExited == agent_pc = "exited"
\* C18: on every exit path of main (the user types exit, an exception leaves
\* the conversation, the failed status check raises SystemExit) the run has
\* passed through __aexit__ and closed the transport handle of the MCP client
\* exactly once, never twice, and once the handle is closed the agent makes no
\* further request through the client.
C18_ReleasedOnceOnEveryExit ==
    /\ [](MainExited => (n_close = 1 /\ transport_handle = "closed"))
    /\ [](n_close <= 1)
    /\ [][agent_pc' = "exited" => agent_pc = "aexit"]_vars
    /\ [][transport_handle = "closed" =>
            (requests_made' = requests_made /\ UNCHANGED <<invoker_vars, registry_vars>>)]_vars
\* main has ended with the SystemExit of the failed status check, the handle
\* closed once
C18_Witness ==
    /\ MainExited
    /\ pending_exc = "SystemExit"
    /\ n_close = 1
    /\ transport_handle = "closed"
\* main has ended after the user typed exit, having made tool calls
C18_WitnessAfterExit ==
    /\ MainExited
    /\ pending_exc = "none"
    /\ requests_made > 1
    /\ n_close = 1

\* process_user_query has been called on query_asked
Asked == n_queries > 0
\* the query contains a key of known_blogs
NamedBlogs == {i \in 1..Len(known_blogs) : IsInfix(known_blogs[i][1], Lower(query_asked))}
NamesKnownBlog == NamedBlogs # {}
UnknownBlogSource ==
    Str(<<"Unknown blog source. Please specify which blog you are referring to.">>)
\* C23: process_user_query returns a string for every user query: the
\* "Unknown blog source." message, without a tool call, when the query names no
\* known blog, and otherwise an LLM summary or a failure message; when it
\* returns, it never returns None, also when the query names a known blog and
\* matches no tool pattern or when a tool call yields an error or an empty
\* result.
C23_AlwaysReturnsString ==
    Asked =>
        /\ agent_reply.exc = "none" => IsStr(agent_reply.val)
        /\ ~NamesKnownBlog => /\ agent_reply.exc = "none"
                              /\ agent_reply.val = UnknownBlogSource
                              /\ agent_reply.calls = <<>>

\* C24: a query that contains "list recent posts" and names a known blog makes
\* process_user_query issue exactly one tool call, to list_recent_posts for the
\* URL of that blog, and no query causes more than one tool call.
C24_ListRecentPostsCall ==
    Asked =>
        /\ Len(agent_reply.calls) <= 1
        /\ (IsInfix(Phrase(<<"list", "recent", "posts">>), query_asked) /\ NamesKnownBlog)
              => \E i \in NamedBlogs :
                    agent_reply.calls = <<ToolCall("list_recent_posts", known_blogs[i][2], <<>>)>>


=============================================================================
